---- MODULE Spec2Model ----
(***************************************************************************)
(* Authoritative simulation core of the Poly_RPG server: Player, Npc,      *)
(* Projectile, GameState and the tick loop, as a state machine.            *)
(*                                                                         *)
(* Numbers.  The program works in floating point; the model works in exact *)
(* fixed point so that every value the server computes on the inputs below *)
(* is an integer:                                                          *)
(*   - X and Z coordinates in 1/XZ of a world unit        (XZ = 300)       *)
(*   - Y coordinates in 1/YS of a world unit              (YS = 4500)      *)
(*   - vertical velocity in 1/150 world units per second                   *)
(*   - wall-clock time (Date.now()) in milliseconds                        *)
(*   - accumulatedTime and waypointWaitTimer in thirds of a millisecond    *)
(*     (the tick interval 1000/30 ms is 100 thirds)                        *)
(*   - directions in thousandths; angles in quarter turns                  *)
(***************************************************************************)
EXTENDS Integers, Sequences, FiniteSets, TLC

VARIABLES
    now,                  \* Date.now()
    players,              \* GameState.players: Map in insertion order
    removed,              \* Player objects deleted from the map (still on the heap)
    projectiles,          \* GameState.projectiles: Map in insertion order
    npcs,                 \* GameState.npcs: Map in insertion order
    timers,               \* pending setTimeout callbacks
    nextSpawnPointIndex,  \* module-level spawn cursor
    nextPlayerId,         \* next fresh uuid for a connection
    nextProjId,           \* next fresh uuid for a projectile
    sockets,              \* per connection: readyState and clients-map membership
    lastTickTime,         \* gameLoop bookkeeping
    accumulatedTime,
    lastBroadcastTime,
    events,               \* messages emitted by the last handler
    lastOp,               \* the last handler run and its input
    resolved,             \* projectiles marked for removal by the last gameLoop, and why
    hits,                 \* history: damage applications per projectile id
    bursts,               \* history: burst requests and their shots
    spawned               \* history: the spawn points getSpawnPosition returned

vars == <<now, players, removed, projectiles, npcs, timers, nextSpawnPointIndex,
          nextPlayerId, nextProjId, sockets, lastTickTime, accumulatedTime,
          lastBroadcastTime, events, lastOp, resolved, hits, bursts, spawned>>

(***************************************************************************)
(* Bounds of the model                                                     *)
(***************************************************************************)
MaxConn == 2          \* connections accepted over a run
MaxSeq == 2           \* largest inputSeq a client sends
MaxProjectiles == 5   \* projectiles created over a run
FineTime == 600       \* the fine clock stops advancing here (ms after start)
MaxTime == 9000       \* the clock stops advancing here (ms after start)
EvictionWindow == 1000 \* the clock runs this far past the inactivity timeout (ms)
JoinWindow == 0       \* clients join and take position within this time of the start (ms)
StartTime == 1000     \* Date.now() when the server starts
MaxSpawnCalls == 14   \* connections accepted in the spawn-cursor scenario
SpawnTime == 6000     \* the spawn-cursor scenario runs this long (ms after start)
PatrolTime == 11000   \* the patrol scenario runs this long (ms after start)
DamageTime == 4000    \* the damage scenario runs this long (ms after start)
HuntTime == 3000      \* the hunt scenario runs this long (ms after start)
HuntShots == 4        \* shots fired in the hunt scenario
BoxSpan == 3          \* the centres of two boxes differ by at most this on an axis
JumpTime == 500       \* the jump scenario runs this long (ms after start)
LoopTime == 600       \* the loop scenario runs this long (ms after start)
MessageTime == 500  \* the message scenario runs for this long after the start (ms)
CreditTime == 2500   \* the kill-credit scenario runs this long (ms after start)
MaxFrames == 6        \* frames of the client loop over a run
FrameTime == 20       \* time between two frames of the client loop (ms)
SnapSpan == 4         \* predicted and server position differ by at most this on an axis (half units)
AirTime == 300        \* the airborne scenario runs this long (ms after start)
LandJumpWindow == 600 \* jumps are requested within this time of the start (ms)
LandTime == 1500      \* the landing scenario runs this long (ms after start)
RoundTime == 27000   \* the round scenario runs this long (ms after start): a whole round of the shorter path
FlightTime == 2600    \* the flight scenario runs this long (ms after start)

(***************************************************************************)
(* Program constants                                                       *)
(***************************************************************************)
TICK_RATE == 30
BROADCAST_RATE == 20
MAX_UPDATES_PER_LOOP == 5
XZ == TICK_RATE * 10
YS == TICK_RATE * 150
tickInterval == (1000 * 3) \div TICK_RATE            \* thirds of a ms
broadcastInterval == 1000 \div BROADCAST_RATE        \* ms

GRAVITY_PER_TICK == 98           \* 19.6 / 30 units/s, in 1/150 units/s
PLAYER_JUMP_VELOCITY == 1200     \* 8.0 units/s, in 1/150 units/s
PLAYER_GROUND_Y == YS \div 2     \* 0.5
NPC_DEFAULT_HEALTH == 50
NPC_PATROL_STEP == (2 * XZ) \div TICK_RATE    \* NPC_PATROL_SPEED * deltaTime
NPC_PATROL_WAIT_TIME == 3000
SCORE_PER_PLAYER_KILL == 1
SCORE_PER_NPC_KILL == 5
PLAYER_RESPAWN_DELAY == 3000
PLAYER_INACTIVITY_TIMEOUT == 180000
WORLD_BOUNDS_X == 125 * XZ
WORLD_BOUNDS_Z == 125 * XZ
WORLD_MIN_Y == (0 - 10) * YS
PLAYER_MAX_HEALTH == 100

NoId == 0    \* null / undefined id

\* WEAPON_CONFIGS, in declaration order (Object.keys order)
weaponTypes == <<"default", "fast", "burst">>

WEAPON_CONFIGS ==
    [default |-> [type |-> "default", speed |-> 25, lifetime |-> 2500, damage |-> 20,
                  radiusXZ |-> (15 * XZ) \div 100, radiusY |-> (15 * YS) \div 100,
                  cooldown |-> 500, burstCount |-> 0, burstDelay |-> 0, burstSpread |-> 0],
     fast    |-> [type |-> "fast", speed |-> 40, lifetime |-> 1500, damage |-> 8,
                  radiusXZ |-> (10 * XZ) \div 100, radiusY |-> (10 * YS) \div 100,
                  cooldown |-> 150, burstCount |-> 0, burstDelay |-> 0, burstSpread |-> 0],
     burst   |-> [type |-> "burst", speed |-> 30, lifetime |-> 1800, damage |-> 12,
                  radiusXZ |-> (12 * XZ) \div 100, radiusY |-> (12 * YS) \div 100,
                  cooldown |-> 800, burstCount |-> 3, burstDelay |-> 60, burstSpread |-> 40]]

Vec(x, y, z) == [x |-> x, y |-> y, z |-> z]

\* OBSTACLES: centre position and full size
Obs(id, px, py2, pz, sx, sy, sz) ==
    [id |-> id, position |-> Vec(px * XZ, (py2 * YS) \div 2, pz * XZ),
     size |-> Vec(sx * XZ, sy * YS, sz * XZ)]

OBSTACLES ==
    << Obs(1, 10, 2, 5, 2, 2, 4),      Obs(2, 0 - 8, 3, 0 - 12, 6, 3, 2),
       Obs(3, 0, 2, 0 - 20, 10, 2, 2), Obs(4, 15, 4, 18, 4, 4, 4),
       Obs(5, 0 - 18, 2, 8, 3, 2, 3),  Obs(6, 20, 5, 0 - 8, 2, 5, 2),
       Obs(7, 0, 1, 15, 12, 1, 2),     Obs(8, 0 - 5, 2, 22, 2, 2, 6),
       Obs(9, 22, 3, 0, 4, 3, 4),      Obs(10, 0 - 20, 4, 0 - 20, 3, 4, 3),
       Obs(11, 20, 6, 20, 4, 6, 4) >>

Spawn(x, z) == Vec(x * XZ, PLAYER_GROUND_Y, z * XZ)

SPAWN_POINTS ==
    << Spawn(0, 0), Spawn(15, 15), Spawn(0 - 15, 0 - 15), Spawn(0 - 15, 15),
       Spawn(15, 0 - 15), Spawn(0, 25), Spawn(0, 0 - 25), Spawn(25, 0),
       Spawn(0 - 25, 0), Spawn(20, 20), Spawn(0 - 20, 0 - 20), Spawn(0 - 20, 20),
       Spawn(20, 0 - 20) >>

Wp(x, z) == [x |-> x * XZ, z |-> z * XZ]
patrolPath1 == << Wp(0 - 10, 10), Wp(0 - 10, 0 - 10), Wp(0 - 5, 0 - 10), Wp(0 - 5, 10) >>
patrolPath2 == << Wp(10, 0 - 10), Wp(15, 0 - 5), Wp(10, 0), Wp(5, 0 - 5) >>

(***************************************************************************)
(* Arithmetic helpers                                                      *)
(***************************************************************************)
\* what ToNumber gives for a value that is no number (undefined, "abc", {}):
\* a value apart from every coordinate of the model
NaN == 0 - 1000000000
\* Math.max and Math.min return NaN as soon as one argument is NaN
MathMax(a, b) == IF a = NaN \/ b = NaN THEN NaN ELSE IF a >= b THEN a ELSE b
MathMin(a, b) == IF a = NaN \/ b = NaN THEN NaN ELSE IF a <= b THEN a ELSE b
Abs(a) == IF a < 0 THEN 0 - a ELSE a
Sign(a) == IF a > 0 THEN 1 ELSE IF a < 0 THEN 0 - 1 ELSE 0

\* division rounding toward zero, as the fixed-point image of a float quotient
DivT(a, b) == Sign(a) * Sign(b) * (Abs(a) \div Abs(b))

RECURSIVE SqrtIn(_, _, _)
SqrtIn(n, lo, hi) ==
    IF hi - lo <= 1 THEN lo
    ELSE LET mid == (lo + hi) \div 2
         IN IF mid * mid <= n THEN SqrtIn(n, mid, hi) ELSE SqrtIn(n, lo, mid)
\* Math.sqrt on the fixed-point grid (rounded down)
MathSqrt(n) == SqrtIn(n, 0, 46340)

\* Math.sin / Math.cos of an angle given in quarter turns, in thousandths
SinQ(q) == CASE q % 4 = 0 -> 0 [] q % 4 = 1 -> 1000 [] q % 4 = 2 -> 0 [] OTHER -> 0 - 1000
CosQ(q) == CASE q % 4 = 0 -> 1000 [] q % 4 = 1 -> 0 [] q % 4 = 2 -> 0 - 1000 [] OTHER -> 0

SeqToSet(s) == {s[i] : i \in 1..Len(s)}

(***************************************************************************)
(* Messages.  One shape for every outbound message: the recipients (`to`), *)
(* the subject id, the acting id, an amount and a health value.            *)
(***************************************************************************)
Msg(type, to, id, by, amount, health) ==
    [type |-> type, to |-> to, id |-> id, by |-> by, amount |-> amount, health |-> health]

\* ws.readyState === 1 (WebSocket.OPEN)
IsOpen(socks, id) == id \in DOMAIN socks /\ socks[id].state = "OPEN"

\* broadcast(messageString, excludePlayerId): every registered client whose socket is OPEN
Recipients(socks, exclude) ==
    {c \in DOMAIN socks : socks[c].inClients /\ c # exclude /\ socks[c].state = "OPEN"}

\* clients.forEach of broadcast, from client c on (clients 1..n in insertion order):
\* the sends made, in order, each with the error its callback receives; failing
\* are the clients whose send fails.  A send to an OPEN socket reports its
\* failure to the callback, which logs it.
RECURSIVE broadcastSendsAborts(_, _, _, _, _)
\* the same loop ended by the first failing send
broadcastSendsAborts(socks, c, n, exclude, failing) ==
    IF c > n THEN << >>
    ELSE IF c \in DOMAIN socks /\ socks[c].inClients /\ c # exclude /\ socks[c].state = "OPEN"
    THEN IF c \in failing THEN << [to |-> c, err |-> TRUE] >>
         ELSE << [to |-> c, err |-> FALSE] >>
                 \o broadcastSendsAborts(socks, c + 1, n, exclude, failing)
    ELSE broadcastSendsAborts(socks, c + 1, n, exclude, failing)

RECURSIVE broadcastSends(_, _, _, _, _)
broadcastSends(socks, c, n, exclude, failing) ==
    IF c > n THEN << >>
    ELSE IF c \in DOMAIN socks /\ socks[c].inClients /\ c # exclude /\ socks[c].state = "OPEN"
    THEN << [to |-> c, err |-> c \in failing] >>
            \o broadcastSends(socks, c + 1, n, exclude, failing)
    ELSE broadcastSends(socks, c + 1, n, exclude, failing)

broadcast(g, type, exclude, id, by, amount, health) ==
    [g EXCEPT !.events = Append(@, Msg(type, Recipients(g.sockets, exclude), id, by, amount, health))]

\* this.ws.send(...) guarded by this.ws?.readyState === 1
sendTo(g, to, type, id, by, amount, health) ==
    IF IsOpen(g.sockets, to)
    THEN [g EXCEPT !.events = Append(@, Msg(type, {to}, id, by, amount, health))]
    ELSE g

(***************************************************************************)
(* Maps in insertion order are sequences of records keyed by `id`.         *)
(***************************************************************************)
Ids(m) == {m[i].id : i \in 1..Len(m)}
Has(m, id) == \E i \in 1..Len(m) : m[i].id = id
IndexOf(m, id) == CHOOSE i \in 1..Len(m) : m[i].id = id
Get(m, id) == m[IndexOf(m, id)]
Put(m, id, v) == [m EXCEPT ![IndexOf(m, id)] = v]
Delete(m, id) == SelectSeq(m, LAMBDA e : e.id # id)

\* The Player object with this id: in the players map, or detached from it
\* but still referenced by a closure.
Obj(g, id) == IF Has(g.players, id) THEN Get(g.players, id) ELSE g.removed[id]
PutObj(g, id, p) ==
    IF Has(g.players, id) THEN [g EXCEPT !.players = Put(@, id, p)]
    ELSE [g EXCEPT !.removed[id] = p]

(***************************************************************************)
(* Timers.  One shape for every pending setTimeout callback.               *)
(***************************************************************************)
ZeroVec == Vec(0, 0, 0)
Timer(kind, due, id, pos, dir, weapon, burst, k) ==
    [kind |-> kind, due |-> due, id |-> id, pos |-> pos, dir |-> dir,
     weapon |-> weapon, burst |-> burst, k |-> k]
RespawnTimerOf(ts, id) == {t \in ts : t.kind = "respawn" /\ t.id = id}
\* clearTimeout(this.respawnTimer): the handle is the player's latest respawn timer
clearRespawnTimer(ts, id) == ts \ RespawnTimerOf(ts, id)

(***************************************************************************)
(* Player                                                                  *)
(***************************************************************************)
Player(id, t) ==
    [id |-> id, maxHealth |-> PLAYER_MAX_HEALTH, health |-> PLAYER_MAX_HEALTH, score |-> 0,
     isAlive |-> TRUE, lastShooterId |-> NoId,
     position |-> Vec(0, PLAYER_GROUND_Y, 0), rotation |-> 0, velocity |-> ZeroVec,
     isJumping |-> FALSE, isGrounded |-> TRUE, isSprinting |-> FALSE,
     isMovingForward |-> FALSE, isMovingBackward |-> FALSE,
     isTurningLeft |-> FALSE, isTurningRight |-> FALSE, isShooting |-> FALSE,
     currentWeaponIndex |-> 0, currentWeapon |-> weaponTypes[1],
     lastShotTime |-> 0, lastUpdateTime |-> t, lastInputSeq |-> 0 - 1,
     diedAt |-> 0]                       \* history: Date.now() of the last die()

\* updateData.<flag> ?? this.<flag>
Coalesce(flags, name, old) == IF name \in DOMAIN flags THEN flags[name] ELSE old

\* updateState that takes the client's y with x and z
updateStateTrustsY(p, updateData, t) ==
    IF ~p.isAlive THEN p
    ELSE
      LET p1 == IF updateData.hasPosition
                THEN [p EXCEPT !.position.x = MathMax(0 - WORLD_BOUNDS_X,
                                                 MathMin(WORLD_BOUNDS_X, updateData.position.x)),
                               !.position.y = updateData.position.y,
                               !.position.z = MathMax(0 - WORLD_BOUNDS_Z,
                                                 MathMin(WORLD_BOUNDS_Z, updateData.position.z))]
                ELSE p
          p2 == IF updateData.hasRotation
                THEN [p1 EXCEPT !.rotation = updateData.rotation]
                ELSE p1
          p3 == IF updateData.hasInputSeq /\ updateData.inputSeq > p.lastInputSeq
                THEN [p2 EXCEPT
                        !.lastInputSeq = updateData.inputSeq,
                        !.isMovingForward = Coalesce(updateData.flags, "movingForward", @),
                        !.isMovingBackward = Coalesce(updateData.flags, "movingBackward", @),
                        !.isTurningLeft = Coalesce(updateData.flags, "turningLeft", @),
                        !.isTurningRight = Coalesce(updateData.flags, "turningRight", @),
                        !.isShooting = Coalesce(updateData.flags, "isShooting", @),
                        !.isSprinting = Coalesce(updateData.flags, "isSprinting", @)]
                ELSE p2
      IN [p3 EXCEPT !.lastUpdateTime = t]

\* updateState without the test of isAlive
updateStateOfDead(p, updateData, t) ==
    LET p1 == IF updateData.hasPosition
              THEN [p EXCEPT !.position.x = MathMax(0 - WORLD_BOUNDS_X,
                                               MathMin(WORLD_BOUNDS_X, updateData.position.x)),
                             !.position.z = MathMax(0 - WORLD_BOUNDS_Z,
                                               MathMin(WORLD_BOUNDS_Z, updateData.position.z))]
              ELSE p
        p2 == IF updateData.hasRotation
              THEN [p1 EXCEPT !.rotation = updateData.rotation]
              ELSE p1
        p3 == IF updateData.hasInputSeq /\ updateData.inputSeq > p.lastInputSeq
              THEN [p2 EXCEPT
                      !.lastInputSeq = updateData.inputSeq,
                      !.isMovingForward = Coalesce(updateData.flags, "movingForward", @),
                      !.isMovingBackward = Coalesce(updateData.flags, "movingBackward", @),
                      !.isTurningLeft = Coalesce(updateData.flags, "turningLeft", @),
                      !.isTurningRight = Coalesce(updateData.flags, "turningRight", @),
                      !.isShooting = Coalesce(updateData.flags, "isShooting", @),
                      !.isSprinting = Coalesce(updateData.flags, "isSprinting", @)]
              ELSE p2
    IN [p3 EXCEPT !.lastUpdateTime = t]

updateState(p, updateData, t) ==
    IF ~p.isAlive THEN p
    ELSE
      LET p1 == IF updateData.hasPosition
                THEN [p EXCEPT !.position.x = MathMax(0 - WORLD_BOUNDS_X,
                                                 MathMin(WORLD_BOUNDS_X, updateData.position.x)),
                               !.position.z = MathMax(0 - WORLD_BOUNDS_Z,
                                                 MathMin(WORLD_BOUNDS_Z, updateData.position.z))]
                ELSE p
          p2 == IF updateData.hasRotation
                THEN [p1 EXCEPT !.rotation = updateData.rotation]
                ELSE p1
          p3 == IF updateData.hasInputSeq /\ updateData.inputSeq > p.lastInputSeq
                THEN [p2 EXCEPT
                        !.lastInputSeq = updateData.inputSeq,
                        !.isMovingForward = Coalesce(updateData.flags, "movingForward", @),
                        !.isMovingBackward = Coalesce(updateData.flags, "movingBackward", @),
                        !.isTurningLeft = Coalesce(updateData.flags, "turningLeft", @),
                        !.isTurningRight = Coalesce(updateData.flags, "turningRight", @),
                        !.isShooting = Coalesce(updateData.flags, "isShooting", @),
                        !.isSprinting = Coalesce(updateData.flags, "isSprinting", @)]
                ELSE p2
      IN [p3 EXCEPT !.lastUpdateTime = t]

\* updatePhysics without gravity
updatePhysicsFloats(p) ==
    IF ~p.isAlive THEN p
    ELSE IF ~p.isGrounded
    THEN LET vy == p.velocity.y
             y == p.position.y + vy
         IN IF y <= PLAYER_GROUND_Y
            THEN [p EXCEPT !.position.y = PLAYER_GROUND_Y, !.velocity.y = 0,
                           !.isGrounded = TRUE, !.isJumping = FALSE]
            ELSE [p EXCEPT !.position.y = y, !.velocity.y = vy]
    ELSE [p EXCEPT !.velocity.y = 0, !.position.y = PLAYER_GROUND_Y]

\* one step of deltaTime = 1 / TICK_RATE seconds
updatePhysics(p) ==
    IF ~p.isAlive THEN p
    ELSE IF ~p.isGrounded
    THEN LET vy == p.velocity.y - GRAVITY_PER_TICK
             y == p.position.y + vy
         IN IF y <= PLAYER_GROUND_Y
            THEN [p EXCEPT !.position.y = PLAYER_GROUND_Y, !.velocity.y = 0,
                           !.isGrounded = TRUE, !.isJumping = FALSE]
            ELSE [p EXCEPT !.position.y = y, !.velocity.y = vy]
    ELSE [p EXCEPT !.velocity.y = 0, !.position.y = PLAYER_GROUND_Y]

\* jump() without the ground test
jumpInAir(g, id) ==
    LET p == Obj(g, id) IN
    IF p.isAlive
    THEN broadcast(PutObj(g, id, [p EXCEPT !.isGrounded = FALSE, !.isJumping = TRUE,
                                           !.velocity.y = PLAYER_JUMP_VELOCITY]),
                   "player_jump", NoId, id, NoId, 0, 0)
    ELSE g

jump(g, id) ==
    LET p == Obj(g, id) IN
    IF p.isAlive /\ p.isGrounded
    THEN broadcast(PutObj(g, id, [p EXCEPT !.isGrounded = FALSE, !.isJumping = TRUE,
                                           !.velocity.y = PLAYER_JUMP_VELOCITY]),
                   "player_jump", NoId, id, NoId, 0, 0)
    ELSE g

cycleWeapon(g, id) ==
    LET p == Obj(g, id) IN
    IF ~p.isAlive THEN g
    ELSE LET idx == (p.currentWeaponIndex + 1) % Len(weaponTypes)
         IN sendTo(PutObj(g, id, [p EXCEPT !.currentWeaponIndex = idx,
                                           !.currentWeapon = weaponTypes[idx + 1]]),
                   id, "weapon_switch_confirm", id, NoId, idx, 0)

getProjectileConfig(p) == WEAPON_CONFIGS[p.currentWeapon]

\* attemptShoot with a strict comparison against the cooldown
attemptShootStrict(p, t) ==
    LET cooldown == WEAPON_CONFIGS[p.currentWeapon].cooldown IN
    IF p.isAlive /\ (t - p.lastShotTime > cooldown)
    THEN [ok |-> TRUE, p |-> [p EXCEPT !.lastShotTime = t]]
    ELSE [ok |-> FALSE, p |-> p]

\* returns the verdict and the player after the call
attemptShoot(p, t) ==
    LET cooldown == WEAPON_CONFIGS[p.currentWeapon].cooldown IN
    IF p.isAlive /\ (t - p.lastShotTime >= cooldown)
    THEN [ok |-> TRUE, p |-> [p EXCEPT !.lastShotTime = t]]
    ELSE [ok |-> FALSE, p |-> p]

\* respawn starting the input sequence over
respawnResetsSeq(g, id, spawnPosition, rot, t) ==
    LET p == Obj(g, id)
        p1 == [p EXCEPT !.isAlive = TRUE, !.health = p.maxHealth,
                        !.position = spawnPosition, !.rotation = rot,
                        !.velocity = ZeroVec, !.isGrounded = TRUE, !.isJumping = FALSE,
                        !.isSprinting = FALSE, !.lastShooterId = NoId, !.lastUpdateTime = t,
                        !.isMovingForward = FALSE, !.isMovingBackward = FALSE,
                        !.isTurningLeft = FALSE, !.isTurningRight = FALSE,
                        !.isShooting = FALSE, !.lastInputSeq = 0 - 1]
    IN sendTo(PutObj(g, id, p1), id, "player_respawn", id, NoId, 0, p1.health)

respawn(g, id, spawnPosition, rot, t) ==
    LET p == Obj(g, id)
        p1 == [p EXCEPT !.isAlive = TRUE, !.health = p.maxHealth,
                        !.position = spawnPosition, !.rotation = rot,
                        !.velocity = ZeroVec, !.isGrounded = TRUE, !.isJumping = FALSE,
                        !.isSprinting = FALSE, !.lastShooterId = NoId, !.lastUpdateTime = t,
                        !.isMovingForward = FALSE, !.isMovingBackward = FALSE,
                        !.isTurningLeft = FALSE, !.isTurningRight = FALSE,
                        !.isShooting = FALSE]
    IN sendTo(PutObj(g, id, p1), id, "player_respawn", id, NoId, 0, p1.health)

\* die with the respawn scheduled after the wrong delay
dieLate(g, id, t) ==
    LET p == Obj(g, id) IN
    IF ~p.isAlive THEN g
    ELSE LET p1 == [p EXCEPT !.isAlive = FALSE, !.isJumping = FALSE, !.isGrounded = TRUE,
                             !.isSprinting = FALSE, !.velocity = ZeroVec, !.diedAt = t]
             g1 == sendTo(PutObj(g, id, p1), id, "player_died", id, p.lastShooterId, 0, 0)
         IN [g1 EXCEPT !.timers = clearRespawnTimer(@, id) \cup
                 {Timer("respawn", t + PLAYER_RESPAWN_DELAY * 2, id, ZeroVec, ZeroVec,
                        "default", 0, 0)}]

\* die without the test of isAlive
dieAgain(g, id, t) ==
    LET p == Obj(g, id)
        p1 == [p EXCEPT !.isAlive = FALSE, !.isJumping = FALSE, !.isGrounded = TRUE,
                        !.isSprinting = FALSE, !.velocity = ZeroVec, !.diedAt = t]
        g1 == sendTo(PutObj(g, id, p1), id, "player_died", id, p.lastShooterId, 0, 0)
    IN [g1 EXCEPT !.timers = clearRespawnTimer(@, id) \cup
            {Timer("respawn", t + PLAYER_RESPAWN_DELAY, id, ZeroVec, ZeroVec, "default", 0, 0)}]

die(g, id, t) ==
    LET p == Obj(g, id) IN
    IF ~p.isAlive THEN g
    ELSE LET p1 == [p EXCEPT !.isAlive = FALSE, !.isJumping = FALSE, !.isGrounded = TRUE,
                             !.isSprinting = FALSE, !.velocity = ZeroVec, !.diedAt = t]
             g1 == sendTo(PutObj(g, id, p1), id, "player_died", id, p.lastShooterId, 0, 0)
         IN [g1 EXCEPT !.timers = clearRespawnTimer(@, id) \cup
                 {Timer("respawn", t + PLAYER_RESPAWN_DELAY, id, ZeroVec, ZeroVec, "default", 0, 0)}]

\* takeDamage adding the amount instead of subtracting it
takeDamageAdds(g, id, amount, shooterId, t) ==
    LET p == Obj(g, id) IN
    IF ~p.isAlive THEN [g |-> g, died |-> FALSE]
    ELSE LET p1 == [p EXCEPT !.health = @ + amount, !.lastShooterId = shooterId]
             g1 == broadcast(PutObj(g, id, p1), "player_hit", NoId, id, shooterId, amount, p1.health)
         IN IF p1.health <= 0
            THEN [g |-> die(PutObj(g1, id, [p1 EXCEPT !.health = 0]), id, t), died |-> TRUE]
            ELSE [g |-> g1, died |-> FALSE]

\* takeDamage that leaves the health of the dying player as subtracted
takeDamageNoClamp(g, id, amount, shooterId, t) ==
    LET p == Obj(g, id) IN
    IF ~p.isAlive THEN [g |-> g, died |-> FALSE]
    ELSE LET p1 == [p EXCEPT !.health = @ - amount, !.lastShooterId = shooterId]
             g1 == broadcast(PutObj(g, id, p1), "player_hit", NoId, id, shooterId, amount, p1.health)
         IN IF p1.health <= 0
            THEN [g |-> die(g1, id, t), died |-> TRUE]
            ELSE [g |-> g1, died |-> FALSE]

\* takeDamage that lets a player live on with no health left
takeDamageLateDeath(g, id, amount, shooterId, t) ==
    LET p == Obj(g, id) IN
    IF ~p.isAlive THEN [g |-> g, died |-> FALSE]
    ELSE LET p1 == [p EXCEPT !.health = @ - amount, !.lastShooterId = shooterId]
             g1 == broadcast(PutObj(g, id, p1), "player_hit", NoId, id, shooterId, amount, p1.health)
         IN IF p1.health < 0
            THEN [g |-> die(PutObj(g1, id, [p1 EXCEPT !.health = 0]), id, t), died |-> TRUE]
            ELSE [g |-> g1, died |-> FALSE]

\* returns the game state after the call and the return value (died)
takeDamage(g, id, amount, shooterId, t) ==
    LET p == Obj(g, id) IN
    IF ~p.isAlive THEN [g |-> g, died |-> FALSE]
    ELSE LET p1 == [p EXCEPT !.health = @ - amount, !.lastShooterId = shooterId]
             g1 == broadcast(PutObj(g, id, p1), "player_hit", NoId, id, shooterId, amount, p1.health)
         IN IF p1.health <= 0
            THEN [g |-> die(PutObj(g1, id, [p1 EXCEPT !.health = 0]), id, t), died |-> TRUE]
            ELSE [g |-> g1, died |-> FALSE]

addScore(p, amount) == [p EXCEPT !.score = @ + amount]

\* dispose that leaves the respawn timer pending
disposeKeepsTimer(g, id) == g

\* dispose(): clearTimeout(this.respawnTimer)
dispose(g, id) == [g EXCEPT !.timers = clearRespawnTimer(@, id)]

(***************************************************************************)
(* Npc                                                                     *)
(***************************************************************************)
\* rotationY is kept as the argument pair of Math.atan2(dx, dz)
Npc(id, position, type, health, size, waypoints) ==
    [id |-> id, position |-> position, type |-> type,
     maxHealth |-> IF health # 0 THEN health ELSE NPC_DEFAULT_HEALTH,
     health |-> IF health # 0 THEN health ELSE NPC_DEFAULT_HEALTH,
     size |-> size, isAlive |-> TRUE, lastAttackerId |-> NoId,
     aiState |-> IF Len(waypoints) > 1 THEN "patrolling" ELSE "idle",
     waypoints |-> waypoints, currentWaypointIndex |-> 0,
     waypointWaitTimer |-> 0, rotationY |-> [dx |-> 0, dz |-> 0]]

\* moveToWaypoint that starts the wait where the NPC stands, without the snap
moveToWaypointNoSnap(n) ==
    LET targetWaypoint == n.waypoints[n.currentWaypointIndex + 1]
        dx == targetWaypoint.x - n.position.x
        dz == targetWaypoint.z - n.position.z
        distanceSq == dx * dx + dz * dz
        closeEnoughSq == (NPC_PATROL_STEP * NPC_PATROL_STEP * 3) \div 2
    IN IF distanceSq < closeEnoughSq \/ distanceSq = 0
       THEN [n EXCEPT !.waypointWaitTimer = NPC_PATROL_WAIT_TIME * 3]
       ELSE LET distance == MathSqrt(distanceSq)
                moveX == DivT(dx * NPC_PATROL_STEP, distance)
                moveZ == DivT(dz * NPC_PATROL_STEP, distance)
            IN [n EXCEPT !.position.x = @ + moveX, !.position.z = @ + moveZ,
                         !.rotationY = [dx |-> dx, dz |-> dz]]

\* the part of updatePatrol after the wait: steer to the current waypoint
moveToWaypoint(n) ==
    LET targetWaypoint == n.waypoints[n.currentWaypointIndex + 1]
        dx == targetWaypoint.x - n.position.x
        dz == targetWaypoint.z - n.position.z
        distanceSq == dx * dx + dz * dz
        closeEnoughSq == (NPC_PATROL_STEP * NPC_PATROL_STEP * 3) \div 2
    IN IF distanceSq < closeEnoughSq \/ distanceSq = 0
       THEN [n EXCEPT !.position.x = targetWaypoint.x, !.position.z = targetWaypoint.z,
                      !.waypointWaitTimer = NPC_PATROL_WAIT_TIME * 3]
       ELSE LET distance == MathSqrt(distanceSq)
                moveX == DivT(dx * NPC_PATROL_STEP, distance)
                moveZ == DivT(dz * NPC_PATROL_STEP, distance)
            IN [n EXCEPT !.position.x = @ + moveX, !.position.z = @ + moveZ,
                         !.rotationY = [dx |-> dx, dz |-> dz]]

\* updatePatrol moving on by two waypoints when the wait has run out
updatePatrolSkips(n) ==
    IF Len(n.waypoints) < 2 THEN [n EXCEPT !.aiState = "idle"]
    ELSE IF n.waypointWaitTimer > 0
    THEN LET n1 == [n EXCEPT !.waypointWaitTimer = @ - tickInterval]
         IN IF n1.waypointWaitTimer <= 0
            THEN moveToWaypoint([n1 EXCEPT !.currentWaypointIndex = (@ + 2) % Len(n.waypoints)])
            ELSE n1
    ELSE moveToWaypoint(n)

updatePatrol(n) ==
    IF Len(n.waypoints) < 2 THEN [n EXCEPT !.aiState = "idle"]
    ELSE IF n.waypointWaitTimer > 0
    THEN LET n1 == [n EXCEPT !.waypointWaitTimer = @ - tickInterval]
         IN IF n1.waypointWaitTimer <= 0
            THEN moveToWaypoint([n1 EXCEPT !.currentWaypointIndex = (@ + 1) % Len(n.waypoints)])
            ELSE n1
    ELSE moveToWaypoint(n)

NpcDie(n) == IF ~n.isAlive THEN n ELSE [n EXCEPT !.isAlive = FALSE]

NpcUpdate(n) ==
    IF ~n.isAlive THEN n
    ELSE LET n1 == IF n.aiState = "patrolling" THEN updatePatrol(n) ELSE n
         IN IF n1.health <= 0 /\ n1.isAlive THEN NpcDie(n1) ELSE n1

\* returns the NPC after the call and the return value (destroyed)
NpcTakeDamage(n, amount, attackerId) ==
    IF ~n.isAlive THEN [n |-> n, destroyed |-> FALSE]
    ELSE LET n1 == [n EXCEPT !.health = @ - amount, !.lastAttackerId = attackerId]
         IN IF n1.health <= 0 THEN [n |-> NpcDie(n1), destroyed |-> TRUE]
            ELSE [n |-> n1, destroyed |-> FALSE]

(***************************************************************************)
(* Projectile                                                              *)
(***************************************************************************)
\* the overlap test without the vertical axis
checkCollisionFlat(posA, sizeA, posB, sizeB) ==
    LET minAx == posA.x - sizeA.x \div 2   maxAx == posA.x + sizeA.x \div 2
        minAz == posA.z - sizeA.z \div 2   maxAz == posA.z + sizeA.z \div 2
        minBx == posB.x - sizeB.x \div 2   maxBx == posB.x + sizeB.x \div 2
        minBz == posB.z - sizeB.z \div 2   maxBz == posB.z + sizeB.z \div 2
    IN /\ (minAx <= maxBx /\ maxAx >= minBx)
       /\ (minAz <= maxBz /\ maxAz >= minBz)

\* Axis-aligned bounding box overlap
checkCollision(posA, sizeA, posB, sizeB) ==
    LET minAx == posA.x - sizeA.x \div 2   maxAx == posA.x + sizeA.x \div 2
        minAy == posA.y - sizeA.y \div 2   maxAy == posA.y + sizeA.y \div 2
        minAz == posA.z - sizeA.z \div 2   maxAz == posA.z + sizeA.z \div 2
        minBx == posB.x - sizeB.x \div 2   maxBx == posB.x + sizeB.x \div 2
        minBy == posB.y - sizeB.y \div 2   maxBy == posB.y + sizeB.y \div 2
        minBz == posB.z - sizeB.z \div 2   maxBz == posB.z + sizeB.z \div 2
    IN /\ (minAx <= maxBx /\ maxAx >= minBx)
       /\ (minAy <= maxBy /\ maxAy >= minBy)
       /\ (minAz <= maxBz /\ maxAz >= minBz)

\* direction in thousandths; velocity is direction * speed (thousandths of a unit per second)
Projectile(id, ownerId, startPosition, direction, config, t, burst) ==
    [id |-> id, ownerId |-> ownerId, type |-> config.type, speed |-> config.speed,
     lifetime |-> config.lifetime, damage |-> config.damage,
     size |-> Vec(config.radiusXZ * 2, config.radiusY * 2, config.radiusXZ * 2),
     position |-> startPosition,
     velocity |-> Vec(direction.x * config.speed, direction.y * config.speed,
                      direction.z * config.speed),
     creationTime |-> t, isActive |-> TRUE,
     burst |-> burst]                     \* history: the burst request it belongs to

\* velocity * deltaTime on the coordinate grids
StepXZ(v) == DivT(v * XZ, 1000 * TICK_RATE)
StepY(v) == DivT(v * YS, 1000 * TICK_RATE)

\* update() that decides isActive afresh on every call
ProjectileUpdateRecomputes(proj, t) ==
    LET pos == Vec(proj.position.x + StepXZ(proj.velocity.x),
                   proj.position.y + StepY(proj.velocity.y),
                   proj.position.z + StepXZ(proj.velocity.z))
        expired == t - proj.creationTime > proj.lifetime
        outside == \/ Abs(pos.x) > WORLD_BOUNDS_X
                   \/ Abs(pos.z) > WORLD_BOUNDS_Z
                   \/ pos.y < WORLD_MIN_Y
    IN [proj EXCEPT !.position = pos, !.isActive = ~(expired \/ outside)]

ProjectileUpdate(proj, t) ==
    IF ~proj.isActive THEN proj
    ELSE LET pos == Vec(proj.position.x + StepXZ(proj.velocity.x),
                        proj.position.y + StepY(proj.velocity.y),
                        proj.position.z + StepXZ(proj.velocity.z))
             expired == t - proj.creationTime > proj.lifetime
             outside == \/ Abs(pos.x) > WORLD_BOUNDS_X
                        \/ Abs(pos.z) > WORLD_BOUNDS_Z
                        \/ pos.y < WORLD_MIN_Y
         IN [proj EXCEPT !.position = pos, !.isActive = ~(expired \/ outside)]

playerSize == Vec((6 * XZ) \div 10, (17 * YS) \div 10, (6 * XZ) \div 10)

\* the box centre of an entity whose position is its ground-contact point
CenterPos(position, size) == [position EXCEPT !.y = position.y + size.y \div 2]

\* index of the first TRUE of a sequence of test results, or 0: the element at
\* which an early-returning for..of loop stops
FirstIndex(tests) ==
    IF \E i \in 1..Len(tests) : tests[i]
    THEN CHOOSE i \in 1..Len(tests) : tests[i] /\ \A j \in 1..(i - 1) : ~tests[j]
    ELSE 0

NoHit == [type |-> "none", id |-> NoId]

\* checkCollisions with the NPC loop ahead of the player loop
checkCollisionsNpcFirst(proj, ps, ns, obstacles) ==
    IF ~proj.isActive THEN [hit |-> NoHit, proj |-> proj]
    ELSE
      LET HitsPlayer(player) ==
              /\ ~(player.id = proj.ownerId \/ ~player.isAlive)
              /\ checkCollision(proj.position, proj.size,
                                CenterPos(player.position, playerSize), playerSize)
          HitsNpc(npc) ==
              /\ npc.isAlive
              /\ checkCollision(proj.position, proj.size,
                                CenterPos(npc.position, npc.size), npc.size)
          HitsObstacle(obstacle) ==
              checkCollision(proj.position, proj.size, obstacle.position, obstacle.size)
          ip == FirstIndex([i \in 1..Len(ps) |-> HitsPlayer(ps[i])])
          inpc == FirstIndex([i \in 1..Len(ns) |-> HitsNpc(ns[i])])
          io == FirstIndex([i \in 1..Len(obstacles) |-> HitsObstacle(obstacles[i])])
          off == [proj EXCEPT !.isActive = FALSE]
      IN IF inpc # 0 THEN [hit |-> [type |-> "npc", id |-> ns[inpc].id], proj |-> off]
         ELSE IF ip # 0 THEN [hit |-> [type |-> "player", id |-> ps[ip].id], proj |-> off]
         ELSE IF io # 0 THEN [hit |-> [type |-> "obstacle", id |-> obstacles[io].id], proj |-> off]
         ELSE [hit |-> NoHit, proj |-> proj]

\* checkCollisions letting the owner and the dead be hit
checkCollisionsHitsAll(proj, ps, ns, obstacles) ==
    IF ~proj.isActive THEN [hit |-> NoHit, proj |-> proj]
    ELSE
      LET HitsPlayer(player) ==
              checkCollision(proj.position, proj.size,
                             CenterPos(player.position, playerSize), playerSize)
          HitsNpc(npc) ==
              checkCollision(proj.position, proj.size,
                             CenterPos(npc.position, npc.size), npc.size)
          HitsObstacle(obstacle) ==
              checkCollision(proj.position, proj.size, obstacle.position, obstacle.size)
          ip == FirstIndex([i \in 1..Len(ps) |-> HitsPlayer(ps[i])])
          inpc == FirstIndex([i \in 1..Len(ns) |-> HitsNpc(ns[i])])
          io == FirstIndex([i \in 1..Len(obstacles) |-> HitsObstacle(obstacles[i])])
          off == [proj EXCEPT !.isActive = FALSE]
      IN IF ip # 0 THEN [hit |-> [type |-> "player", id |-> ps[ip].id], proj |-> off]
         ELSE IF inpc # 0 THEN [hit |-> [type |-> "npc", id |-> ns[inpc].id], proj |-> off]
         ELSE IF io # 0 THEN [hit |-> [type |-> "obstacle", id |-> obstacles[io].id], proj |-> off]
         ELSE [hit |-> NoHit, proj |-> proj]

\* returns the hit result and the projectile after the call
checkCollisions(proj, ps, ns, obstacles) ==
    IF ~proj.isActive THEN [hit |-> NoHit, proj |-> proj]
    ELSE
      LET HitsPlayer(player) ==
              /\ ~(player.id = proj.ownerId \/ ~player.isAlive)
              /\ checkCollision(proj.position, proj.size,
                                CenterPos(player.position, playerSize), playerSize)
          HitsNpc(npc) ==
              /\ npc.isAlive
              /\ checkCollision(proj.position, proj.size,
                                CenterPos(npc.position, npc.size), npc.size)
          HitsObstacle(obstacle) ==
              checkCollision(proj.position, proj.size, obstacle.position, obstacle.size)
          ip == FirstIndex([i \in 1..Len(ps) |-> HitsPlayer(ps[i])])
          inpc == FirstIndex([i \in 1..Len(ns) |-> HitsNpc(ns[i])])
          io == FirstIndex([i \in 1..Len(obstacles) |-> HitsObstacle(obstacles[i])])
          off == [proj EXCEPT !.isActive = FALSE]
      IN IF ip # 0 THEN [hit |-> [type |-> "player", id |-> ps[ip].id], proj |-> off]
         ELSE IF inpc # 0 THEN [hit |-> [type |-> "npc", id |-> ns[inpc].id], proj |-> off]
         ELSE IF io # 0 THEN [hit |-> [type |-> "obstacle", id |-> obstacles[io].id], proj |-> off]
         ELSE [hit |-> NoHit, proj |-> proj]

(***************************************************************************)
(* GameState                                                               *)
(***************************************************************************)
npcSize1 == Vec((7 * XZ) \div 10, (17 * YS) \div 10, (7 * XZ) \div 10)
npcSize2 == Vec(XZ, (18 * YS) \div 10, XZ)

\* _initializeNpcs
InitialNpcs ==
    << Npc(1, Vec((0 - 10) * XZ, PLAYER_GROUND_Y, 10 * XZ), "patroller", 75, npcSize1, patrolPath1),
       Npc(2, Vec(10 * XZ, PLAYER_GROUND_Y, (0 - 10) * XZ), "patroller", 75, npcSize1, patrolPath2),
       Npc(3, Vec(0, PLAYER_GROUND_Y, 20 * XZ), "target_dummy", 200, npcSize2, << >>) >>

\* getSpawnPosition with the cursor wrapping one entry early
getSpawnPositionShort(g) ==
    [pos |-> SPAWN_POINTS[g.nextSpawnPointIndex + 1],
     g |-> [g EXCEPT !.nextSpawnPointIndex = (@ + 1) % (Len(SPAWN_POINTS) - 1),
                     !.spawned = Append(@, SPAWN_POINTS[g.nextSpawnPointIndex + 1])]]

\* returns the spawn point and the game state after the call
getSpawnPosition(g) ==
    [pos |-> SPAWN_POINTS[g.nextSpawnPointIndex + 1],
     g |-> [g EXCEPT !.nextSpawnPointIndex = (@ + 1) % Len(SPAWN_POINTS),
                     !.spawned = Append(@, SPAWN_POINTS[g.nextSpawnPointIndex + 1])]]

addPlayer(g, playerId, t) ==
    LET sp == getSpawnPosition(g)
        newPlayer == [Player(playerId, t) EXCEPT !.position = sp.pos]
    IN [sp.g EXCEPT !.players = Append(@, newPlayer)]

removePlayer(g, playerId) ==
    IF Has(g.players, playerId)
    THEN LET player == Get(g.players, playerId)
             g1 == dispose(g, playerId)
         IN [g1 EXCEPT !.players = Delete(@, playerId),
                       !.removed = [i \in DOMAIN @ \cup {playerId} |->
                                      IF i = playerId THEN player ELSE @[i]]]
    ELSE g

updatePlayerState(g, playerId, updateData, t) ==
    IF Has(g.players, playerId)
    THEN [g EXCEPT !.players = Put(@, playerId, updateState(Get(@, playerId), updateData, t))]
    ELSE g

\* the burst callback: rot is the (cos, sin) of the random angle offset, in thousandths
burstShot(g, tm, rot, t) ==
    LET config == WEAPON_CONFIGS[tm.weapon]
        spread == config.burstSpread
        burstDirection ==
            IF spread > 0
            THEN [tm.dir EXCEPT !.x = DivT(tm.dir.x * rot[1] - tm.dir.z * rot[2], 1000),
                                !.z = DivT(tm.dir.x * rot[2] + tm.dir.z * rot[1], 1000)]
            ELSE tm.dir
        proj == Projectile(g.nextProjId, tm.id, tm.pos, burstDirection, config, t, tm.burst)
    IN [g EXCEPT !.projectiles = Append(@, proj), !.nextProjId = @ + 1,
                 !.hits = Append(@, 0),
                 !.bursts[tm.burst].shots = Append(@, [at |-> t, proj |-> proj.id])]

\* handleShootRequest with the staggered shots scheduled one burstDelay late
handleShootRequestLate(g, playerId, shootData, t) ==
    IF ~Has(g.players, playerId) \/ ~Get(g.players, playerId).isAlive THEN g
    ELSE
      LET a == attemptShoot(Get(g.players, playerId), t) IN
      IF ~a.ok THEN g
      ELSE
        LET player == a.p
            g1 == [g EXCEPT !.players = Put(@, playerId, player)]
            projectileConfig == getProjectileConfig(player)
            d == shootData.direction
            len == MathSqrt(d.x * d.x + d.y * d.y + d.z * d.z)
            baseDirection ==
                IF len > 100
                THEN Vec(DivT(d.x * 1000, len), DivT(d.y * 1000, len), DivT(d.z * 1000, len))
                ELSE Vec(SinQ(player.rotation), 0, CosQ(player.rotation))
            baseStartPosition ==
                Vec(player.position.x + DivT(baseDirection.x * 6 * XZ, 10000),
                    player.position.y + YS,
                    player.position.z + DivT(baseDirection.z * 6 * XZ, 10000))
            g2 == IF player.currentWeapon = "burst" /\ projectileConfig.burstCount > 1
                  THEN LET burstCount == projectileConfig.burstCount
                           burstDelay == IF projectileConfig.burstDelay # 0
                                         THEN projectileConfig.burstDelay ELSE 60
                           b == Len(g1.bursts) + 1
                       IN [g1 EXCEPT
                             !.timers = @ \cup
                                 {Timer("burst", t + (i + 1) * burstDelay, playerId, baseStartPosition,
                                        baseDirection, player.currentWeapon, b, i)
                                    : i \in 0..(burstCount - 1)},
                             !.bursts = Append(@, [owner |-> playerId, at |-> t, shots |-> << >>])]
                  ELSE [g1 EXCEPT
                          !.projectiles = Append(@, Projectile(g1.nextProjId, playerId,
                                                     baseStartPosition, baseDirection,
                                                     projectileConfig, t, 0)),
                          !.nextProjId = @ + 1,
                          !.hits = Append(@, 0)]
        IN broadcast(g2, "player_shoot", NoId, playerId, NoId, 0, 0)

handleShootRequest(g, playerId, shootData, t) ==
    IF ~Has(g.players, playerId) \/ ~Get(g.players, playerId).isAlive THEN g
    ELSE
      LET a == attemptShoot(Get(g.players, playerId), t) IN
      IF ~a.ok THEN g
      ELSE
        LET player == a.p
            g1 == [g EXCEPT !.players = Put(@, playerId, player)]
            projectileConfig == getProjectileConfig(player)
            d == shootData.direction
            len == MathSqrt(d.x * d.x + d.y * d.y + d.z * d.z)
            baseDirection ==
                IF len > 100
                THEN Vec(DivT(d.x * 1000, len), DivT(d.y * 1000, len), DivT(d.z * 1000, len))
                ELSE Vec(SinQ(player.rotation), 0, CosQ(player.rotation))
            baseStartPosition ==
                Vec(player.position.x + DivT(baseDirection.x * 6 * XZ, 10000),
                    player.position.y + YS,
                    player.position.z + DivT(baseDirection.z * 6 * XZ, 10000))
            g2 == IF player.currentWeapon = "burst" /\ projectileConfig.burstCount > 1
                  THEN LET burstCount == projectileConfig.burstCount
                           burstDelay == IF projectileConfig.burstDelay # 0
                                         THEN projectileConfig.burstDelay ELSE 60
                           b == Len(g1.bursts) + 1
                       IN [g1 EXCEPT
                             !.timers = @ \cup
                                 {Timer("burst", t + i * burstDelay, playerId, baseStartPosition,
                                        baseDirection, player.currentWeapon, b, i)
                                    : i \in 0..(burstCount - 1)},
                             !.bursts = Append(@, [owner |-> playerId, at |-> t, shots |-> << >>])]
                  ELSE [g1 EXCEPT
                          !.projectiles = Append(@, Projectile(g1.nextProjId, playerId,
                                                     baseStartPosition, baseDirection,
                                                     projectileConfig, t, 0)),
                          !.nextProjId = @ + 1,
                          !.hits = Append(@, 0)]
        IN broadcast(g2, "player_shoot", NoId, playerId, NoId, 0, 0)

handleWeaponSwitch(g, playerId) ==
    IF Has(g.players, playerId) /\ Get(g.players, playerId).isAlive
    THEN cycleWeapon(g, playerId) ELSE g

handleJumpRequest(g, playerId) ==
    IF Has(g.players, playerId) /\ Get(g.players, playerId).isAlive
    THEN jump(g, playerId) ELSE g

\* Map.get(key) || 0 and Map.set(key, value) on the score-delta map
ScoreGet(m, id) == IF id \in DOMAIN m THEN m[id] ELSE 0
ScoreSet(m, id, v) == [i \in DOMAIN m \cup {id} |-> IF i = id THEN v ELSE m[i]]

\* projectilesToRemove.add(proj.id) left out
markForRemovalSkips(toRemove, proj) == toRemove

\* projectilesToRemove.add(proj.id)
markForRemoval(toRemove, proj) == toRemove \cup {proj.id}

\* the bookkeeping crediting the owner for every hit, lethal or not
awardHitAnyHit(st, td, proj, toRemove, points, selfHit) ==
    [g |-> [td.g EXCEPT !.hits[proj.id] = @ + 1],
     projectilesToRemove |-> toRemove,
     playersToAwardScore |->
         IF Has(td.g.players, proj.ownerId) /\ ~selfHit
         THEN ScoreSet(st.playersToAwardScore, proj.ownerId,
                       ScoreGet(st.playersToAwardScore, proj.ownerId) + points)
         ELSE st.playersToAwardScore]

\* the bookkeeping after takeDamage returned td = [g, died]: the kill is
\* credited to the owner if it is still in the players map
awardHit(st, td, proj, toRemove, points, selfHit) ==
    [g |-> [td.g EXCEPT !.hits[proj.id] = @ + 1],
     projectilesToRemove |-> toRemove,
     playersToAwardScore |->
         IF td.died /\ Has(td.g.players, proj.ownerId) /\ ~selfHit
         THEN ScoreSet(st.playersToAwardScore, proj.ownerId,
                       ScoreGet(st.playersToAwardScore, proj.ownerId) + points)
         ELSE st.playersToAwardScore]

\* the hit on an NPC with the destroyed NPC taken out of the map
damageNpcRemoves(g, npcId, amount, attackerId) ==
    LET td == NpcTakeDamage(Get(g.npcs, npcId), amount, attackerId)
    IN [g |-> [g EXCEPT !.npcs = IF td.destroyed THEN Delete(@, npcId) ELSE Put(@, npcId, td.n)],
        died |-> td.destroyed]

\* NpcTakeDamage applied to the NPC of the map; returns [g, died]
damageNpc(g, npcId, amount, attackerId) ==
    LET td == NpcTakeDamage(Get(g.npcs, npcId), amount, attackerId)
    IN [g |-> [g EXCEPT !.npcs = Put(@, npcId, td.n)], died |-> td.destroyed]

\* the body of "if (hitResult)" for the projectile at index i and result r
applyHit(st, i, t, r) ==
    IF r.hit.type = "none" THEN st
    ELSE
      LET proj == st.g.projectiles[i]
          g1 == [st.g EXCEPT !.projectiles[i] = r.proj,
                             !.resolved = Append(@, [proj |-> proj.id, type |-> r.hit.type,
                                                     id |-> r.hit.id])]
          toRemove == markForRemoval(st.projectilesToRemove, proj)
      IN
      IF r.hit.type = "player"
      THEN awardHit(st, takeDamage(g1, r.hit.id, proj.damage, proj.ownerId, t), proj, toRemove,
                    SCORE_PER_PLAYER_KILL, proj.ownerId = r.hit.id)
      ELSE IF r.hit.type = "npc"
      THEN awardHit(st, damageNpc(g1, r.hit.id, proj.damage, proj.ownerId), proj, toRemove,
                    SCORE_PER_NPC_KILL, FALSE)
      ELSE [g |-> g1, projectilesToRemove |-> toRemove,
            playersToAwardScore |-> st.playersToAwardScore]

\* step 4 of update for the projectile at index i:
\* st = [g, projectilesToRemove, playersToAwardScore]
resolveCollision(st, i, t) ==
    IF ~st.g.projectiles[i].isActive THEN st
    ELSE applyHit(st, i, t, checkCollisions(st.g.projectiles[i], st.g.players, st.g.npcs,
                                            OBSTACLES))

RECURSIVE resolveCollisionsFrom(_, _, _)
resolveCollisionsFrom(st, i, t) ==
    IF i > Len(st.g.projectiles) THEN st
    ELSE resolveCollisionsFrom(resolveCollision(st, i, t), i + 1, t)

\* ws.terminate(): the socket leaves OPEN; its 'close' event is still to come
terminate(socks, id) ==
    IF id \in DOMAIN socks /\ socks[id].state = "OPEN"
    THEN [socks EXCEPT ![id].state = "CLOSING"] ELSE socks

RECURSIVE removePlayers(_, _)
removePlayers(g, ids) ==
    IF ids = << >> THEN g ELSE removePlayers(removePlayer(g, Head(ids)), Tail(ids))

\* steps 1 to 3 of update: player physics, NPCs, projectiles
moveEntities(g, t) ==
    [g EXCEPT !.players = [i \in 1..Len(@) |-> updatePhysics(@[i])],
              !.npcs = [i \in 1..Len(@) |-> NpcUpdate(@[i])],
              !.projectiles = [i \in 1..Len(@) |-> ProjectileUpdate(@[i], t)]]

\* the projectiles that proj.update left inactive, as results of the tick:
\* "outside" for one past the world bounds, "expired" for one past its lifetime
inactiveResults(ps) ==
    LET off == SelectSeq(ps, LAMBDA pr : ~pr.isActive)
    IN [k \in 1..Len(off) |->
          [proj |-> off[k].id,
           type |-> IF \/ Abs(off[k].position.x) > WORLD_BOUNDS_X
                       \/ Abs(off[k].position.z) > WORLD_BOUNDS_Z
                       \/ off[k].position.y < WORLD_MIN_Y
                    THEN "outside" ELSE "expired",
           id |-> NoId]]

\* step 4 with nothing marked for the projectiles that proj.update deactivated
resolveCollisionsKeepsInactive(g, t) ==
    resolveCollisionsFrom(
        [g |-> [g EXCEPT !.resolved = @ \o inactiveResults(g.projectiles)],
         projectilesToRemove |-> {},
         playersToAwardScore |-> << >>], 1, t)

\* step 4: the projectiles that expired are marked, the others resolve their hits
resolveCollisions(g, t) ==
    resolveCollisionsFrom(
        [g |-> [g EXCEPT !.resolved = @ \o inactiveResults(g.projectiles)],
         projectilesToRemove |-> {g.projectiles[i].id : i \in {j \in 1..Len(g.projectiles) :
                                                                 ~g.projectiles[j].isActive}},
         playersToAwardScore |-> << >>], 1, t)

\* steps 5 and 6: award the scores, purge the marked projectiles
awardAndPurge(st) ==
    [st.g EXCEPT !.players =
                     [i \in 1..Len(@) |->
                         IF @[i].id \in DOMAIN st.playersToAwardScore
                         THEN addScore(@[i], st.playersToAwardScore[@[i].id]) ELSE @[i]],
                 !.projectiles = SelectSeq(@, LAMBDA pr : pr.id \notin st.projectilesToRemove)]

\* step 7 removing a player as soon as its last input is as old as the timeout
removeInactiveEarly(g, t) ==
    LET playersToRemoveTimeout ==
            SelectSeq(g.players,
                      LAMBDA player : t - player.lastUpdateTime >= PLAYER_INACTIVITY_TIMEOUT)
        ids == [k \in 1..Len(playersToRemoveTimeout) |-> playersToRemoveTimeout[k].id]
        g7 == [g EXCEPT !.sockets =
                  [c \in DOMAIN @ |->
                      IF \E k \in 1..Len(ids) : ids[k] = c THEN terminate(@, c)[c] ELSE @[c]]]
    IN removePlayers(g7, ids)

\* step 7: terminate and remove the players that sent nothing for too long
removeInactive(g, t) ==
    LET playersToRemoveTimeout ==
            SelectSeq(g.players,
                      LAMBDA player : t - player.lastUpdateTime > PLAYER_INACTIVITY_TIMEOUT)
        ids == [k \in 1..Len(playersToRemoveTimeout) |-> playersToRemoveTimeout[k].id]
        g7 == [g EXCEPT !.sockets =
                  [c \in DOMAIN @ |->
                      IF \E k \in 1..Len(ids) : ids[k] = c THEN terminate(@, c)[c] ELSE @[c]]]
    IN removePlayers(g7, ids)

\* GameState.update(deltaTime) with deltaTime = 1 / TICK_RATE, at Date.now() = t
update(g, t) == removeInactive(awardAndPurge(resolveCollisions(moveEntities(g, t), t)), t)

RECURSIVE updateTimes(_, _, _)
updateTimes(g, n, t) == IF n = 0 THEN g ELSE updateTimes(update(g, t), n - 1, t)

(***************************************************************************)
(* The state as one value, for the operators above, and back.              *)
(***************************************************************************)
G == [players |-> players, removed |-> removed, projectiles |-> projectiles, npcs |-> npcs,
      timers |-> timers, nextSpawnPointIndex |-> nextSpawnPointIndex,
      nextProjId |-> nextProjId, sockets |-> sockets, hits |-> hits, bursts |-> bursts,
      spawned |-> spawned,
      events |-> << >>, resolved |-> << >>]

Set(g) ==
    /\ players' = g.players
    /\ removed' = g.removed
    /\ projectiles' = g.projectiles
    /\ npcs' = g.npcs
    /\ timers' = g.timers
    /\ nextSpawnPointIndex' = g.nextSpawnPointIndex
    /\ nextProjId' = g.nextProjId
    /\ sockets' = g.sockets
    /\ hits' = g.hits
    /\ bursts' = g.bursts
    /\ spawned' = g.spawned
    /\ events' = g.events
    /\ resolved' = g.resolved

loopVars == <<lastTickTime, accumulatedTime, lastBroadcastTime>>

\* the longest message text the message handler reads
MessageSizeLimit == 2048
Message(size, form, type, hasPayload, updateData, direction) ==
    [size |-> size, form |-> form, type |-> type, hasPayload |-> hasPayload,
     updateData |-> updateData, direction |-> direction]
Op(op, id, data) == [op |-> op, id |-> id, data |-> data]

Init ==
    /\ now = StartTime
    /\ players = << >>
    /\ removed = << >>
    /\ projectiles = << >>
    /\ npcs = InitialNpcs
    /\ timers = {Timer("gameLoop", StartTime, NoId, ZeroVec, ZeroVec, "default", 0, 0)}
    /\ nextSpawnPointIndex = 0
    /\ nextPlayerId = 1
    /\ nextProjId = 1
    /\ sockets = << >>
    /\ lastTickTime = StartTime
    /\ accumulatedTime = 0
    /\ lastBroadcastTime = StartTime
    /\ events = << >>
    /\ lastOp = Op("start", NoId, 0)
    /\ resolved = << >>
    /\ hits = << >>
    /\ bursts = << >>
    /\ spawned = << >>

\* ws.on('message'): the handler's body.  A message m is its text's length
\* (size), what JSON.parse makes of the text (form: "text" is no JSON and
\* throws a SyntaxError, "null" parses to null, "object" to an object with
\* the type and, where hasPayload, the payload given).  Every error thrown
\* in the body is caught and logged.
onMessageParsesAll(g, playerId, m, t) ==
    IF m.form # "object" THEN g
    ELSE IF ~Has(g.players, playerId) /\ m.type # "ping" THEN g
    ELSE CASE m.type = "player_update" ->
                  IF m.hasPayload THEN updatePlayerState(g, playerId, m.updateData, t) ELSE g
           [] m.type = "shoot_request" ->
                  IF m.hasPayload
                  THEN handleShootRequest(g, playerId, [direction |-> m.direction], t) ELSE g
           [] m.type = "jump_request" -> handleJumpRequest(g, playerId)
           [] m.type = "weapon_switch_request" -> handleWeaponSwitch(g, playerId)
           [] m.type = "ping" -> sendTo(g, playerId, "pong", playerId, NoId, 0, 0)
           [] m.type = "chat_message" ->
                  IF m.hasPayload
                  THEN broadcast(g, "chat_broadcast", NoId, playerId, NoId, 0, 0) ELSE g
           [] OTHER -> g

\* the handler ending the connection of a client whose message it cannot read
onMessageCloses(g, playerId, m, t) ==
    IF m.size > MessageSizeLimit THEN g
    ELSE IF m.form # "object"
    THEN [removePlayer(g, playerId) EXCEPT !.sockets = terminate(@, playerId)]
    ELSE onMessageParsesAll(g, playerId, m, t)

onMessage(g, playerId, m, t) ==
    IF m.size > MessageSizeLimit THEN g
    ELSE onMessageParsesAll(g, playerId, m, t)

(***************************************************************************)
(* Connection handlers (server.js)                                         *)
(***************************************************************************)
\* wss.on('connection'); limit caps the connections accepted over a run
Connect(limit) ==
    /\ nextPlayerId <= limit
    /\ LET playerId == nextPlayerId
           g0 == [G EXCEPT !.sockets = [c \in DOMAIN @ \cup {playerId} |->
                                          IF c = playerId
                                          THEN [state |-> "OPEN", inClients |-> TRUE]
                                          ELSE @[c]]]
           g1 == addPlayer(g0, playerId, now)
           g2 == sendTo(g1, playerId, "init", playerId, NoId, 0, 0)
           g3 == broadcast(g2, "player_join", playerId, playerId, NoId, 0, 0)
       IN /\ Set(g3)
          /\ lastOp' = Op("connection", playerId, 0)
    /\ nextPlayerId' = nextPlayerId + 1
    /\ UNCHANGED <<now, loopVars>>

\* ws.on('message') with a player_update
MsgPlayerUpdate(id, updateData) ==
    /\ IsOpen(sockets, id)
    /\ Set(IF Has(players, id) THEN updatePlayerState(G, id, updateData, now) ELSE G)
    /\ lastOp' = Op("player_update", id, updateData)
    /\ UNCHANGED <<now, nextPlayerId, loopVars>>

\* ws.on('message') with a shoot_request; MaxProjectiles caps the projectiles of a run
MsgShootRequest(id, direction) ==
    /\ IsOpen(sockets, id)
    /\ Len(hits) + Cardinality({tm \in timers : tm.kind = "burst"}) < MaxProjectiles
    /\ Set(IF Has(players, id)
           THEN handleShootRequest(G, id, [direction |-> direction], now) ELSE G)
    /\ lastOp' = Op("shoot_request", id, direction)
    /\ UNCHANGED <<now, nextPlayerId, loopVars>>

\* ws.on('message') with a jump_request
MsgJumpRequest(id) ==
    /\ IsOpen(sockets, id)
    /\ Set(IF Has(players, id) THEN handleJumpRequest(G, id) ELSE G)
    /\ lastOp' = Op("jump_request", id, 0)
    /\ UNCHANGED <<now, nextPlayerId, loopVars>>

\* ws.on('message') with a weapon_switch_request
MsgWeaponSwitch(id) ==
    /\ IsOpen(sockets, id)
    /\ Set(IF Has(players, id) THEN handleWeaponSwitch(G, id) ELSE G)
    /\ lastOp' = Op("weapon_switch_request", id, 0)
    /\ UNCHANGED <<now, nextPlayerId, loopVars>>

\* ws.on('message') with any message; after is the form of the message that
\* the operation before delivered on the same connection, if it was one
OnMessage(id, m) ==
    /\ IsOpen(sockets, id)
    /\ m.type = "shoot_request" =>
          Len(hits) + Cardinality({tm \in timers : tm.kind = "burst"}) < MaxProjectiles
    /\ Set(onMessage(G, id, m, now))
    /\ lastOp' = Op("message", id,
                    [m |-> m,
                     after |-> IF lastOp.op = "message" /\ lastOp.id = id
                               THEN lastOp.data.m.form ELSE "none"])
    /\ UNCHANGED <<now, nextPlayerId, loopVars>>

\* ws.on('close'): the socket is CLOSED when the event is delivered
OnClose(id) ==
    /\ id \in DOMAIN sockets
    /\ sockets[id].state \in {"OPEN", "CLOSING"}
    /\ LET g1 == removePlayer(G, id)
           g2 == [g1 EXCEPT !.sockets[id] = [state |-> "CLOSED", inClients |-> FALSE]]
       IN Set(broadcast(g2, "player_leave", NoId, id, NoId, 0, 0))
    /\ lastOp' = Op("close", id, 0)
    /\ UNCHANGED <<now, nextPlayerId, loopVars>>

\* ws.on('error')
OnError(id) ==
    /\ IsOpen(sockets, id)
    /\ LET g1 == IF sockets[id].inClients
                 THEN broadcast([removePlayer(G, id) EXCEPT !.sockets[id].inClients = FALSE],
                                "player_leave", NoId, id, NoId, 0, 0)
                 ELSE G
       IN Set([g1 EXCEPT !.sockets = terminate(@, id)])
    /\ lastOp' = Op("error", id, 0)
    /\ UNCHANGED <<now, nextPlayerId, loopVars>>

(***************************************************************************)
(* Snapshots                                                               *)
(***************************************************************************)
PlayerNetworkState(p) ==
    [id |-> p.id, position |-> p.position, rotation |-> p.rotation, health |-> p.health,
     maxHealth |-> p.maxHealth, score |-> p.score, isAlive |-> p.isAlive,
     isShooting |-> p.isShooting, isJumping |-> p.isJumping, isGrounded |-> p.isGrounded,
     isSprinting |-> p.isSprinting, currentWeapon |-> p.currentWeapon]

ProjectileNetworkState(proj) ==
    [id |-> proj.id, ownerId |-> proj.ownerId, position |-> proj.position, type |-> proj.type]

NpcNetworkState(n) ==
    [id |-> n.id, type |-> n.type, position |-> n.position, rotationY |-> n.rotationY,
     size |-> n.size, health |-> n.health, maxHealth |-> n.maxHealth, isAlive |-> n.isAlive]

getCombinedNetworkState(g) ==
    [players |-> [i \in 1..Len(g.players) |-> PlayerNetworkState(g.players[i])],
     projectiles |-> [i \in 1..Len(g.projectiles) |-> ProjectileNetworkState(g.projectiles[i])],
     npcs |-> [i \in 1..Len(g.npcs) |-> NpcNetworkState(g.npcs[i])]]

\* broadcast of game_state_update by g, with the snapshot of the game state of `from`
broadcastState(g, from) ==
    [g EXCEPT !.events =
        Append(@, [type |-> "game_state_update", to |-> Recipients(g.sockets, NoId),
                   id |-> NoId, by |-> NoId, amount |-> 0, health |-> 0,
                   payload |-> getCombinedNetworkState(from)])]

(***************************************************************************)
(* Timer callbacks                                                         *)
(***************************************************************************)
\* the respawn callback scheduled by Player.die; rot is the random rotation
RespawnTimerFires(rot) ==
    \E tm \in timers :
      /\ tm.kind = "respawn"
      /\ tm.due <= now
      /\ LET sp == getSpawnPosition([G EXCEPT !.timers = @ \ {tm}])
         IN Set(respawn(sp.g, tm.id, sp.pos, rot, now))
      /\ lastOp' = Op("respawn_timer", tm.id, 0)
      /\ UNCHANGED <<now, nextPlayerId, loopVars>>

\* one staggered shot of a burst; rot is the (cos, sin) of the random angle offset
BurstTimerFires(rot) ==
    \E tm \in timers :
      /\ tm.kind = "burst"
      /\ tm.due <= now
      /\ Set(burstShot([G EXCEPT !.timers = @ \ {tm}], tm, rot, now))
      /\ lastOp' = Op("burst_timer", tm.id, tm.k)
      /\ UNCHANGED <<now, nextPlayerId, loopVars>>

\* gameLoop that carries the accumulated time over when it falls behind
GameLoopCarriesOver ==
    \E tm \in timers :
      /\ tm.kind = "gameLoop"
      /\ tm.due <= now
      /\ LET elapsed == now - lastTickTime
             acc0 == accumulatedTime + elapsed * 3
             updatesProcessed == MathMin(MAX_UPDATES_PER_LOOP, acc0 \div tickInterval)
             g1 == updateTimes([G EXCEPT !.timers = @ \ {tm}], updatesProcessed, now)
             acc1 == acc0 - updatesProcessed * tickInterval
             broadcastDue == now - lastBroadcastTime >= broadcastInterval
             nonEmpty == Len(g1.players) > 0 \/ Len(g1.projectiles) > 0 \/ Len(g1.npcs) > 0
             g2 == IF broadcastDue /\ nonEmpty THEN broadcastState(g1, g1) ELSE g1
             timeToNextTick == MathMax(0, tickInterval - acc1)
             delay == MathMax(1, (timeToNextTick + 2) \div 3)
         IN /\ Set([g2 EXCEPT !.timers = @ \cup
                       {Timer("gameLoop", now + delay, NoId, ZeroVec, ZeroVec, "default", 0, 0)}])
            /\ lastTickTime' = now
            /\ accumulatedTime' = acc1
            /\ lastBroadcastTime' = IF broadcastDue THEN now ELSE lastBroadcastTime
            /\ lastOp' = Op("gameLoop", NoId, updatesProcessed)
      /\ UNCHANGED <<now, nextPlayerId>>

\* gameLoop that takes the snapshot it broadcasts before it runs the updates
GameLoopSnapshotsEarly ==
    \E tm \in timers :
      /\ tm.kind = "gameLoop"
      /\ tm.due <= now
      /\ LET elapsed == now - lastTickTime
             acc0 == accumulatedTime + elapsed * 3
             updatesProcessed == MathMin(MAX_UPDATES_PER_LOOP, acc0 \div tickInterval)
             g1 == updateTimes([G EXCEPT !.timers = @ \ {tm}], updatesProcessed, now)
             acc1 == IF updatesProcessed >= MAX_UPDATES_PER_LOOP THEN 0
                     ELSE acc0 - updatesProcessed * tickInterval
             broadcastDue == now - lastBroadcastTime >= broadcastInterval
             nonEmpty == Len(g1.players) > 0 \/ Len(g1.projectiles) > 0 \/ Len(g1.npcs) > 0
             g2 == IF broadcastDue /\ nonEmpty THEN broadcastState(g1, G) ELSE g1
             timeToNextTick == MathMax(0, tickInterval - acc1)
             delay == MathMax(1, (timeToNextTick + 2) \div 3)
         IN /\ Set([g2 EXCEPT !.timers = @ \cup
                       {Timer("gameLoop", now + delay, NoId, ZeroVec, ZeroVec, "default", 0, 0)}])
            /\ lastTickTime' = now
            /\ accumulatedTime' = acc1
            /\ lastBroadcastTime' = IF broadcastDue THEN now ELSE lastBroadcastTime
            /\ lastOp' = Op("gameLoop", NoId, updatesProcessed)
      /\ UNCHANGED <<now, nextPlayerId>>

\* gameLoop(): drain whole ticks, broadcast, reschedule
GameLoop ==
    \E tm \in timers :
      /\ tm.kind = "gameLoop"
      /\ tm.due <= now
      /\ LET elapsed == now - lastTickTime
             acc0 == accumulatedTime + elapsed * 3
             updatesProcessed == MathMin(MAX_UPDATES_PER_LOOP, acc0 \div tickInterval)
             g1 == updateTimes([G EXCEPT !.timers = @ \ {tm}], updatesProcessed, now)
             acc1 == IF updatesProcessed >= MAX_UPDATES_PER_LOOP THEN 0
                     ELSE acc0 - updatesProcessed * tickInterval
             broadcastDue == now - lastBroadcastTime >= broadcastInterval
             nonEmpty == Len(g1.players) > 0 \/ Len(g1.projectiles) > 0 \/ Len(g1.npcs) > 0
             g2 == IF broadcastDue /\ nonEmpty THEN broadcastState(g1, g1) ELSE g1
             timeToNextTick == MathMax(0, tickInterval - acc1)
             delay == MathMax(1, (timeToNextTick + 2) \div 3)
         IN /\ Set([g2 EXCEPT !.timers = @ \cup
                       {Timer("gameLoop", now + delay, NoId, ZeroVec, ZeroVec, "default", 0, 0)}])
            /\ lastTickTime' = now
            /\ accumulatedTime' = acc1
            /\ lastBroadcastTime' = IF broadcastDue THEN now ELSE lastBroadcastTime
            /\ lastOp' = Op("gameLoop", NoId, updatesProcessed)
      /\ UNCHANGED <<now, nextPlayerId>>

(***************************************************************************)
(* The clock.  Respawn and burst callbacks run on the simulated clock of   *)
(* the scenarios: the clock never passes their due time.  The game loop    *)
(* measures its own lateness, so its wake-up may be overslept (Stall).     *)
(***************************************************************************)
MinDue(ts) == CHOOSE d \in {tm.due : tm \in ts} : \A tm \in ts : d <= tm.due
Exact(ts) == {tm \in ts : tm.kind # "gameLoop"}
stateVars == <<players, removed, projectiles, npcs, timers, nextSpawnPointIndex, nextPlayerId,
               nextProjId, sockets, loopVars, hits, bursts, spawned>>
\* a step of the clock runs no handler
ClockStep(d) == lastOp' = Op("clock", NoId, d) /\ events' = << >> /\ resolved' = << >>

\* time passes up to the next pending callback
AdvanceTime(limit) ==
    /\ timers # {}
    /\ MinDue(timers) > now
    /\ MinDue(timers) <= StartTime + limit
    /\ now' = MinDue(timers)
    /\ ClockStep(MinDue(timers) - now)
    /\ UNCHANGED stateVars

\* the process is not scheduled for d ms; callbacks already due run first.
\* The clock is stalled only inside the window [from, limit] after the start.
Stall(d, from, limit) ==
    /\ StartTime + from <= now
    /\ now + d <= StartTime + limit
    /\ \A tm \in timers : now < tm.due
    /\ \A tm \in Exact(timers) : now + d <= tm.due
    /\ now' = now + d
    /\ ClockStep(d)
    /\ UNCHANGED stateVars

(***************************************************************************)
(* Client inputs                                                           *)
(***************************************************************************)
UpdateData(position, rotation, inputSeq, flags) ==
    [hasPosition |-> TRUE, position |-> position, hasRotation |-> TRUE, rotation |-> rotation,
     hasInputSeq |-> TRUE, inputSeq |-> inputSeq, flags |-> flags]

RandomRotations == {0, 2}
SpreadRotations == {<<1000, 0 - 40>>, <<1000, 0>>, <<1000, 40>>}

\* a firing position one unit south of the second spawn point; the obstacle
\* obs4 stands one unit north of that spawn point
FirePos == Vec(15 * XZ, 0, 14 * XZ)
MoveToFirePos == UpdateData(FirePos, 0, 0, << >>)
North == Vec(0, 0, 1000)

Connected == DOMAIN sockets
InPosition(id) ==
    /\ Has(players, id)
    /\ Get(players, id).position.x = FirePos.x
    /\ Get(players, id).position.z = FirePos.z

(***************************************************************************)
(* Kill and respawn scenario, on a coarse clock: two clients join at start, *)
(* the first walks to the firing position and from there shoots north, at  *)
(* the second.                                                             *)
(***************************************************************************)
AtStart == now <= StartTime + JoinWindow
CoarseStep == WEAPON_CONFIGS["default"].cooldown
LongStall == PLAYER_INACTIVITY_TIMEOUT - PLAYER_RESPAWN_DELAY

NextKill ==
    \/ AtStart /\ Connect(MaxConn)
    \/ AtStart /\ MsgPlayerUpdate(1, MoveToFirePos)
    \/ InPosition(1) /\ MsgShootRequest(1, North)
    \/ OnClose(2)
    \/ OnError(2)
    \/ \E rot \in RandomRotations : RespawnTimerFires(rot)
    \/ GameLoop
    \/ Stall(CoarseStep, 0, MaxTime)
    \/ Stall(LongStall, 0, LongStall + MaxTime)
    \/ Stall(CoarseStep, LongStall, PLAYER_INACTIVITY_TIMEOUT + EvictionWindow)

SpecKill == Init /\ [][NextKill]_vars

(***************************************************************************)
(* Shooting scenario, on the fine clock of the game loop: the first client *)
(* takes the firing position, cycles weapons and shoots north; it may      *)
(* leave at any moment.                                                    *)
(***************************************************************************)
NextFine ==
    \/ AtStart /\ Connect(MaxConn)
    \/ AtStart /\ MsgPlayerUpdate(1, MoveToFirePos)
    \/ MsgWeaponSwitch(1)
    \/ InPosition(1) /\ MsgShootRequest(1, North)
    \/ OnClose(1)
    \/ \E rot \in SpreadRotations : BurstTimerFires(rot)
    \/ GameLoop
    \/ AdvanceTime(FineTime)

SpecFine == Init /\ [][NextFine]_vars

(***************************************************************************)
(* Input scenario: one client sends player_update messages, in any order    *)
(* and with any sequence number, with and without the optional fields.     *)
(***************************************************************************)
InputPositions == {Vec(15 * XZ, 0, 14 * XZ), Vec(16 * XZ, 0, 15 * XZ)}
InputRotations == {0, 1}
InputFlags == { << >>,
                [movingForward |-> TRUE],
                [movingForward |-> FALSE, isSprinting |-> TRUE],
                [movingForward |-> TRUE, movingBackward |-> FALSE, turningLeft |-> TRUE,
                 turningRight |-> FALSE, isShooting |-> TRUE, isSprinting |-> FALSE] }
PlayerUpdates ==
    LET full == {UpdateData(position, rotation, inputSeq, flags) :
                     position \in InputPositions, rotation \in InputRotations,
                     inputSeq \in 0..MaxSeq, flags \in InputFlags}
    IN full \cup {[u EXCEPT !.hasInputSeq = FALSE] : u \in full}
            \cup {[u EXCEPT !.hasPosition = FALSE, !.hasRotation = FALSE] : u \in full}

NextInput ==
    \/ AtStart /\ Connect(1)
    \/ \E updateData \in PlayerUpdates : MsgPlayerUpdate(1, updateData)
    \/ MsgJumpRequest(1)

SpecInput == Init /\ [][NextInput]_vars

(***************************************************************************)
(* Collision scenario: Projectile.checkCollisions applied to arguments      *)
(* drawn from bounded sets.  Two players and two NPCs stand at the west     *)
(* face of obs1 or far from it, alive or dead; two projectiles, owned by    *)
(* either player, are short of the group, inside it, inside it and the     *)
(* obstacle, or inside the obstacle only.                                   *)
(***************************************************************************)
NearObs1 == Vec((86 * XZ) \div 10, PLAYER_GROUND_Y, 5 * XZ)
FarFromObs1 == Vec((86 * XZ) \div 10, PLAYER_GROUND_Y, (0 - 5) * XZ)
Placements == {[position |-> NearObs1, isAlive |-> TRUE],
               [position |-> NearObs1, isAlive |-> FALSE],
               [position |-> FarFromObs1, isAlive |-> TRUE]}
PlacedPlayer(id, c) ==
    [Player(id, StartTime) EXCEPT !.position = c.position, !.isAlive = c.isAlive,
                                  !.health = IF c.isAlive THEN @ ELSE 0]
PlacedNpc(id, c) ==
    [Npc(id, c.position, "target_dummy", 0, npcSize1, << >>) EXCEPT !.isAlive = c.isAlive,
                                  !.health = IF c.isAlive THEN @ ELSE 0]
ProjectileXs == {(80 * XZ) \div 10, (84 * XZ) \div 10, (89 * XZ) \div 10, (95 * XZ) \div 10}
PlacedProjectile(id, ownerId, x, isActive) ==
    [Projectile(id, ownerId, Vec(x, YS, 5 * XZ), Vec(1000, 0, 0), WEAPON_CONFIGS["default"],
                StartTime, 0) EXCEPT !.isActive = isActive]
ProjectileChoices ==
    {[ownerId |-> o, x |-> x, isActive |-> a] : o \in {1, 2}, x \in ProjectileXs, a \in BOOLEAN}

InitCollide ==
    /\ now = StartTime
    /\ players \in {<<PlacedPlayer(1, c1), PlacedPlayer(2, c2)>> :
                        c1 \in Placements, c2 \in Placements}
    /\ npcs \in {<<PlacedNpc(1, c1), PlacedNpc(2, c2)>> : c1 \in Placements, c2 \in Placements}
    /\ projectiles \in {<<PlacedProjectile(1, c1.ownerId, c1.x, c1.isActive),
                           PlacedProjectile(2, c2.ownerId, c2.x, c2.isActive)>> :
                            c1 \in ProjectileChoices, c2 \in ProjectileChoices}
    /\ removed = << >>
    /\ timers = {Timer("gameLoop", StartTime, NoId, ZeroVec, ZeroVec, "default", 0, 0)}
    /\ nextSpawnPointIndex = 2
    /\ nextPlayerId = 3
    /\ nextProjId = 3
    /\ sockets = [c \in {1, 2} |-> [state |-> "OPEN", inClients |-> TRUE]]
    /\ lastTickTime = StartTime
    /\ accumulatedTime = 0
    /\ lastBroadcastTime = StartTime
    /\ events = << >>
    /\ lastOp = Op("start", NoId, 0)
    /\ resolved = << >>
    /\ hits = <<0, 0>>
    /\ bursts = << >>
    /\ spawned = <<SPAWN_POINTS[1], SPAWN_POINTS[2]>>

\* proj.checkCollisions(players, npcs, OBSTACLES) for the projectile at index i,
\* once per projectile; the result is appended to resolved
CheckCollisions(i) ==
    /\ i \in 1..Len(projectiles)
    /\ \A k \in 1..Len(resolved) : resolved[k].proj # projectiles[i].id
    /\ LET r == checkCollisions(projectiles[i], players, npcs, OBSTACLES)
       IN /\ projectiles' = [projectiles EXCEPT ![i] = r.proj]
          /\ resolved' = Append(resolved, [proj |-> projectiles[i].id, type |-> r.hit.type,
                                           id |-> r.hit.id])
    /\ lastOp' = Op("checkCollisions", projectiles[i].id, 0)
    /\ UNCHANGED <<now, players, removed, npcs, timers, nextSpawnPointIndex, nextPlayerId,
                   nextProjId, sockets, loopVars, events, hits, bursts, spawned>>

NextCollide == \E i \in {1, 2} : CheckCollisions(i)

SpecCollide == InitCollide /\ [][NextCollide]_vars

(***************************************************************************)
(* Spawn scenario: clients join at the start and again once a player has   *)
(* respawned; in between the first one, from the firing position, shoots   *)
(* the second one dead.  Joins and the respawn draw spawn points from the  *)
(* same cursor.                                                            *)
(***************************************************************************)
SomeoneRespawned == \E i \in 1..Len(players) : players[i].diedAt > 0 /\ players[i].isAlive

NextSpawn ==
    \/ (AtStart \/ SomeoneRespawned) /\ Len(spawned) < MaxSpawnCalls /\ Connect(MaxSpawnCalls)
    \/ AtStart /\ MsgPlayerUpdate(1, MoveToFirePos)
    \/ InPosition(1) /\ MsgShootRequest(1, North)
    \/ \E rot \in RandomRotations : RespawnTimerFires(rot)
    \/ GameLoop
    \/ Stall(CoarseStep, 0, SpawnTime)

SpecSpawn == Init /\ [][NextSpawn]_vars

(***************************************************************************)
(* Patrol scenario: the game loop alone, on its own clock.                  *)
(***************************************************************************)
NextNpc ==
    \/ GameLoop
    \/ AdvanceTime(PatrolTime)

SpecNpc == Init /\ [][NextNpc]_vars

(***************************************************************************)
(* Round scenario: the game loop alone, long enough for an NPC to walk its *)
(* whole path and start again.                                             *)
(***************************************************************************)
NextRound ==
    \/ GameLoop
    \/ AdvanceTime(RoundTime)

SpecRound == Init /\ [][NextRound]_vars

(***************************************************************************)
(* Damage scenario, on a coarse clock: two clients join at start; the      *)
(* first one is hit by projectiles of the second, of any weapon, one hit   *)
(* per call of takeDamage; die() may be called once more on a dead player. *)
(***************************************************************************)
\* the damage a projectile can carry
DamageAmounts == {WEAPON_CONFIGS[weaponTypes[i]].damage : i \in 1..Len(weaponTypes)}

\* hitPlayer.takeDamage(proj.damage, proj.ownerId)
PlayerTakeDamage(id, amount, shooterId) ==
    /\ Has(players, id)
    /\ Has(players, shooterId)
    /\ Set(takeDamage(G, id, amount, shooterId, now).g)
    /\ lastOp' = Op("takeDamage", id, amount)
    /\ UNCHANGED <<now, nextPlayerId, loopVars>>

\* player.die() on a player that is dead already
PlayerDieAgain(id) ==
    /\ Has(players, id)
    /\ ~Get(players, id).isAlive
    /\ Set(die(G, id, now))
    /\ lastOp' = Op("die", id, 0)
    /\ UNCHANGED <<now, nextPlayerId, loopVars>>

NextDamage ==
    \/ AtStart /\ Connect(MaxConn)
    \/ \E amount \in DamageAmounts : PlayerTakeDamage(1, amount, 2)
    \/ PlayerDieAgain(1)
    \/ \E rot \in RandomRotations : RespawnTimerFires(rot)
    \/ GameLoop
    \/ Stall(CoarseStep, 0, DamageTime)

SpecDamage == Init /\ [][NextDamage]_vars

(***************************************************************************)
(* Hunt scenario, on a coarse clock: one client joins, walks to one unit   *)
(* south of the first patroller and from there shoots north, at it, or     *)
(* straight up or down, where nothing stands.                              *)
(***************************************************************************)
Up == Vec(0, 1000, 0)
Down == Vec(0, 0 - 1000, 0)
HuntPos == Vec(InitialNpcs[1].position.x, 0, InitialNpcs[1].position.z - XZ)
MoveToHuntPos == UpdateData(HuntPos, 0, 0, << >>)
InHuntPos(id) ==
    /\ Has(players, id)
    /\ Get(players, id).position.x = HuntPos.x
    /\ Get(players, id).position.z = HuntPos.z

NextHunt ==
    \/ AtStart /\ Connect(1)
    \/ AtStart /\ MsgPlayerUpdate(1, MoveToHuntPos)
    \/ /\ InHuntPos(1)
       /\ Len(hits) < HuntShots
       /\ \E direction \in {North, Up, Down} : MsgShootRequest(1, direction)
    \/ GameLoop
    \/ Stall(CoarseStep, 0, HuntTime)

SpecHunt == Init /\ [][NextHunt]_vars

(***************************************************************************)
(* Flight scenario: one projectile, fired eastwards by the second player,  *)
(* with update and checkCollisions called on it in any order and any       *)
(* number of times, a tick or a whole lifetime apart.  It starts short of  *)
(* the first player and the obstacle obs1, or short of the east boundary.  *)
(***************************************************************************)
FlightXs == ProjectileXs \cup {WORLD_BOUNDS_X - XZ \div 2}
FlightSteps == {1000 \div TICK_RATE, WEAPON_CONFIGS["default"].lifetime}

InitFlight ==
    /\ now = StartTime
    /\ players = <<PlacedPlayer(1, [position |-> NearObs1, isAlive |-> TRUE]),
                   PlacedPlayer(2, [position |-> FarFromObs1, isAlive |-> TRUE])>>
    /\ npcs = InitialNpcs
    /\ projectiles \in {<<PlacedProjectile(1, 2, x, TRUE)>> : x \in FlightXs}
    /\ removed = << >>
    /\ timers = {Timer("gameLoop", StartTime, NoId, ZeroVec, ZeroVec, "default", 0, 0)}
    /\ nextSpawnPointIndex = 2
    /\ nextPlayerId = 3
    /\ nextProjId = 2
    /\ sockets = [c \in {1, 2} |-> [state |-> "OPEN", inClients |-> TRUE]]
    /\ lastTickTime = StartTime
    /\ accumulatedTime = 0
    /\ lastBroadcastTime = StartTime
    /\ events = << >>
    /\ lastOp = Op("start", NoId, 0)
    /\ resolved = << >>
    /\ hits = <<0>>
    /\ bursts = << >>
    /\ spawned = <<SPAWN_POINTS[1], SPAWN_POINTS[2]>>

\* proj.update(deltaTime), called d ms after the previous call on the
\* projectile at index i; the operation records whether it was active
ProjectileTick(i, d) ==
    /\ i \in 1..Len(projectiles)
    /\ now + d <= StartTime + FlightTime
    /\ now' = now + d
    /\ projectiles' = [projectiles EXCEPT ![i] = ProjectileUpdate(@, now')]
    /\ lastOp' = Op("update", projectiles[i].id, projectiles[i].isActive)
    /\ UNCHANGED <<players, removed, npcs, timers, nextSpawnPointIndex, nextPlayerId,
                   nextProjId, sockets, loopVars, events, resolved, hits, bursts, spawned>>

\* proj.checkCollisions(players, npcs, OBSTACLES) for the projectile at index i,
\* any number of times; the operation records whether it was active
ProjectileCheck(i) ==
    /\ i \in 1..Len(projectiles)
    /\ projectiles' = [projectiles EXCEPT ![i] = checkCollisions(@, players, npcs, OBSTACLES).proj]
    /\ lastOp' = Op("checkCollisions", projectiles[i].id, projectiles[i].isActive)
    /\ UNCHANGED <<now, players, removed, npcs, timers, nextSpawnPointIndex, nextPlayerId,
                   nextProjId, sockets, loopVars, events, resolved, hits, bursts, spawned>>

NextFlight ==
    \/ \E d \in FlightSteps : ProjectileTick(1, d)
    \/ ProjectileCheck(1)

SpecFlight == InitFlight /\ [][NextFlight]_vars

(***************************************************************************)
(* Box scenario: checkCollision called once on two boxes.  Coordinates and *)
(* sizes are in grid units; the sizes are even, so that the halves are     *)
(* exact as they are in the code's floating point.                         *)
(***************************************************************************)
BoxCentres == {Vec(0, 0, 0), Vec(1, 2, 0 - 1)}
BoxSizes == {Vec(2, 2, 2), Vec(2, 4, 6)}
BoxOffsets == {Vec(x, y, z) : x, y, z \in (0 - BoxSpan)..BoxSpan}
Boxes ==
    {[posA |-> a, sizeA |-> sa, posB |-> Vec(a.x + d.x, a.y + d.y, a.z + d.z), sizeB |-> sb] :
        a \in BoxCentres, sa \in BoxSizes, d \in BoxOffsets, sb \in BoxSizes}

InitBoxes ==
    /\ now = StartTime
    /\ players = << >>
    /\ removed = << >>
    /\ projectiles = << >>
    /\ npcs = InitialNpcs
    /\ timers = {Timer("gameLoop", StartTime, NoId, ZeroVec, ZeroVec, "default", 0, 0)}
    /\ nextSpawnPointIndex = 0
    /\ nextPlayerId = 1
    /\ nextProjId = 1
    /\ sockets = << >>
    /\ lastTickTime = StartTime
    /\ accumulatedTime = 0
    /\ lastBroadcastTime = StartTime
    /\ events = << >>
    /\ lastOp \in {Op("boxes", NoId, b) : b \in Boxes}
    /\ resolved = << >>
    /\ hits = << >>
    /\ bursts = << >>
    /\ spawned = << >>

\* checkCollision(posA, sizeA, posB, sizeB) on the boxes drawn; the operation
\* records the arguments and the value returned
CallCheckCollision ==
    /\ lastOp.op = "boxes"
    /\ lastOp' = Op("checkCollision", NoId,
                    [args |-> lastOp.data,
                     result |-> checkCollision(lastOp.data.posA, lastOp.data.sizeA,
                                               lastOp.data.posB, lastOp.data.sizeB)])
    /\ UNCHANGED <<now, stateVars, events, resolved>>

NextBoxes == CallCheckCollision

SpecBoxes == InitBoxes /\ [][NextBoxes]_vars

(***************************************************************************)
(* Bounds scenario, on a coarse clock: two clients join; the first sends    *)
(* player_update messages whose position is inside the world, far outside  *)
(* it, or has an x that is no number; it is hit by projectiles of the      *)
(* second, dies and respawns.                                              *)
(***************************************************************************)
WildPositions == {FirePos, Vec(500 * XZ, 0, (0 - 500) * XZ), Vec(NaN, 0, 14 * XZ)}

WildUpdates ==
    {UpdateData(position, rotation, inputSeq, << >>) :
        position \in WildPositions, rotation \in InputRotations, inputSeq \in 0..MaxSeq}

NextBounds ==
    \/ AtStart /\ Connect(MaxConn)
    \/ \E updateData \in WildUpdates : MsgPlayerUpdate(1, updateData)
    \/ PlayerTakeDamage(1, WEAPON_CONFIGS["default"].damage, 2)
    \/ \E rot \in RandomRotations : RespawnTimerFires(rot)
    \/ GameLoop
    \/ Stall(CoarseStep, 0, DamageTime)

SpecBounds == Init /\ [][NextBounds]_vars

(***************************************************************************)
(* Jump scenario, on the fine clock of the game loop: one client joins,    *)
(* jumps, and sends player_update messages whose position carries a y of   *)
(* its own, on the ground or in the air.                                   *)
(***************************************************************************)
ClientYs == {0, 5 * YS}

JumpUpdates == {UpdateData(Vec(FirePos.x, y, FirePos.z), 0, 0, << >>) : y \in ClientYs}

NextJump ==
    \/ AtStart /\ Connect(1)
    \/ MsgJumpRequest(1)
    \/ \E updateData \in JumpUpdates : MsgPlayerUpdate(1, updateData)
    \/ GameLoop
    \/ AdvanceTime(JumpTime)

SpecJump == Init /\ [][NextJump]_vars

(***************************************************************************)
(* Loop scenario: the game loop alone; it wakes up on time, or late by     *)
(* less than two ticks, or late by more than five.                         *)
(***************************************************************************)
LoopStalls == {50, 200}

NextLoop ==
    \/ GameLoop
    \/ AdvanceTime(LoopTime)
    \/ \E d \in LoopStalls : Stall(d, 0, LoopTime)

SpecLoop == Init /\ [][NextLoop]_vars

(***************************************************************************)
(* Broadcast scenario: clients join, close and fail; broadcast is called   *)
(* with any excluded id while the sends to any of the clients fail.        *)
(***************************************************************************)
\* broadcast(messageString, excludePlayerId); the operation records the sends
CallBroadcast(exclude, failing) ==
    /\ lastOp' = Op("broadcast", exclude,
                    [failing |-> failing,
                     sends |-> broadcastSends(sockets, 1, nextPlayerId - 1, exclude, failing)])
    /\ UNCHANGED <<now, stateVars, events, resolved>>

NextBroadcast ==
    \/ Connect(MaxConn + 1)
    \/ \E id \in Connected : OnClose(id)
    \/ \E id \in Connected : OnError(id)
    \/ \E exclude \in Connected \cup {NoId}, failing \in SUBSET Connected :
          CallBroadcast(exclude, failing)

SpecBroadcast == Init /\ [][NextBroadcast]_vars

(***************************************************************************)
(* Message scenario, on the coarse clock: two clients join at start and    *)
(* the first sends messages of every type, readable or not.                *)
(***************************************************************************)
MessageTypes == {"player_update", "shoot_request", "jump_request", "weapon_switch_request",
                 "ping", "chat_message", "dance"}
ReadableMessages ==
    {Message(100, "object", type, TRUE, UpdateData(FirePos, 0, 1, << >>), North) :
        type \in MessageTypes}
    \cup {Message(MessageSizeLimit, "object", "player_update", TRUE,
                  UpdateData(FirePos, 0, 1, << >>), North)}
PayloadLessMessages ==
    {Message(100, "object", type, FALSE, UpdateData(FirePos, 0, 1, << >>), North) :
        type \in {"player_update", "shoot_request", "chat_message"}}
OversizedMessages ==
    {Message(MessageSizeLimit + 1, "object", type, TRUE, UpdateData(FirePos, 0, 1, << >>), North) :
        type \in {"player_update", "shoot_request", "ping", "chat_message"}}
NoJsonMessages ==
    {Message(100, form, "none", FALSE, UpdateData(FirePos, 0, 1, << >>), North) :
        form \in {"text", "null"}}
Messages == ReadableMessages \cup PayloadLessMessages \cup OversizedMessages \cup NoJsonMessages

NextMessage ==
    \/ AtStart /\ Connect(MaxConn)
    \/ \E m \in Messages : OnMessage(1, m)
    \/ GameLoop
    \/ Stall(CoarseStep, 0, MessageTime)

SpecMessage == Init /\ [][NextMessage]_vars

(***************************************************************************)
(* Kill-credit scenario, on a coarse clock: two clients join at start; the *)
(* first takes the firing position, south of the second, or the hunting    *)
(* position, south of an NPC, shoots north, and may leave at any moment,   *)
(* its projectiles still in the air.                                       *)
(***************************************************************************)
NextCredit ==
    \/ AtStart /\ Connect(MaxConn)
    \/ AtStart /\ \E updateData \in {MoveToFirePos, MoveToHuntPos} : MsgPlayerUpdate(1, updateData)
    \/ (InPosition(1) \/ InHuntPos(1)) /\ MsgShootRequest(1, North)
    \/ OnClose(1)
    \/ GameLoop
    \/ Stall(CoarseStep, 0, CreditTime)

SpecCredit == Init /\ [][NextCredit]_vars

(***************************************************************************)
(* The client (main.js, network.js): one GameClient and its NetworkManager *)
(* on one connection.  The client scenario carries the client's state c in *)
(* the operation record: wire is what ws.send was given, handed the        *)
(* inputSeq of each state the loop passed to sendPlayerUpdate.             *)
(***************************************************************************)
STATE_UPDATE_INTERVAL == 50
\* an argument the caller left out, and one it gave
Undefined == [defined |-> FALSE]
Defined(v) == [defined |-> TRUE, value |-> v]

InitialClient ==
    [clientId |-> NoId, isAlive |-> FALSE, isGameRunningState |-> FALSE, isGamePaused |-> TRUE,
     isConnected |-> FALSE, closed |-> FALSE, inputSequence |-> 0, lastSentStateTime |-> 0,
     time |-> 0, frames |-> 0, thrown |-> FALSE, handed |-> << >>, wire |-> << >>]

\* NetworkManager.sendMessage(MSG_PLAYER_UPDATE, payload)
sendMessage(c, payload) ==
    IF ~c.isConnected THEN c ELSE [c EXCEPT !.wire = Append(@, payload)]

\* NetworkManager.sendPlayerUpdate(playerState, inputFlags, inputSeq): building
\* the payload reads inputFlags.movingForward, a TypeError when inputFlags is
\* undefined; the payload's inputSeq is the third argument
sendPlayerUpdate(c, playerState, inputFlags, inputSeq) ==
    IF ~playerState.defined \/ ~inputFlags.defined THEN [c EXCEPT !.thrown = TRUE]
    ELSE sendMessage(c, [inputSeq |-> inputSeq])

\* GameClient._clientLoop: one frame, dt after the one before; moved tells
\* whether the input of the frame makes a state update needed
clientLoop(c, moved, dt) ==
    LET c1 == [c EXCEPT !.time = @ + dt, !.frames = @ + 1, !.thrown = FALSE] IN
    IF ~c1.isGameRunningState \/ c1.isGamePaused THEN c1
    ELSE IF c1.clientId = NoId \/ ~c1.isAlive THEN c1
    ELSE
      LET c2 == [c1 EXCEPT !.inputSequence = @ + 1]
          stateUpdateNeeded == moved
          \* updateInterval, times three
          updateInterval3 == IF stateUpdateNeeded THEN 2 * STATE_UPDATE_INTERVAL
                             ELSE 3 * STATE_UPDATE_INTERVAL
      IN IF /\ stateUpdateNeeded
            /\ 3 * (c2.time - c2.lastSentStateTime) >= updateInterval3
            /\ c2.isConnected
         THEN LET stateToSend == [inputSeq |-> c2.inputSequence]
                  c3 == sendPlayerUpdate([c2 EXCEPT !.handed = Append(@, stateToSend.inputSeq)],
                                         Defined(stateToSend), Undefined, Undefined)
              IN IF c3.thrown THEN c3 ELSE [c3 EXCEPT !.lastSentStateTime = c2.time]
         ELSE c2

\* NetworkManager._onOpen and GameClient._onInit with the init data of a live player
onInit(c) ==
    [c EXCEPT !.isConnected = TRUE, !.clientId = 1, !.isAlive = TRUE,
              !.isGameRunningState = TRUE, !.isGamePaused = FALSE]

\* NetworkManager._onClose and GameClient._onDisconnect
onDisconnect(c) ==
    [c EXCEPT !.isConnected = FALSE, !.closed = TRUE, !.clientId = NoId, !.isAlive = FALSE,
              !.isGameRunningState = FALSE, !.isGamePaused = TRUE]

(***************************************************************************)
(* Client scenario: the client connects, runs frames with and without      *)
(* movement, pauses and resumes, and disconnects.                          *)
(***************************************************************************)
InitClient ==
    /\ now = StartTime
    /\ players = << >>
    /\ removed = << >>
    /\ projectiles = << >>
    /\ npcs = InitialNpcs
    /\ timers = {Timer("gameLoop", StartTime, NoId, ZeroVec, ZeroVec, "default", 0, 0)}
    /\ nextSpawnPointIndex = 0
    /\ nextPlayerId = 1
    /\ nextProjId = 1
    /\ sockets = << >>
    /\ lastTickTime = StartTime
    /\ accumulatedTime = 0
    /\ lastBroadcastTime = StartTime
    /\ events = << >>
    /\ lastOp = Op("client", NoId, InitialClient)
    /\ resolved = << >>
    /\ hits = << >>
    /\ bursts = << >>
    /\ spawned = << >>

ClientStep(c) ==
    /\ lastOp' = Op("client", NoId, c)
    /\ UNCHANGED <<now, stateVars, events, resolved>>

ClientInit ==
    /\ ~lastOp.data.isConnected /\ ~lastOp.data.closed
    /\ ClientStep(onInit(lastOp.data))

ClientFrame(moved) ==
    /\ lastOp.data.frames < MaxFrames
    /\ ClientStep(clientLoop(lastOp.data, moved, FrameTime))

ClientPause ==
    /\ lastOp.data.isGameRunningState
    /\ ClientStep([lastOp.data EXCEPT !.isGamePaused = ~@])

ClientDisconnect ==
    /\ lastOp.data.isConnected
    /\ ClientStep(onDisconnect(lastOp.data))

NextClient ==
    \/ ClientInit
    \/ \E moved \in BOOLEAN : ClientFrame(moved)
    \/ ClientPause
    \/ ClientDisconnect

SpecClient == InitClient /\ [][NextClient]_vars

(***************************************************************************)
(* Client reconciliation (main.js): _onStateUpdate on a local player state *)
(* and a snapshot, positions in half units.  The scenario draws both and   *)
(* keeps them in the operation record.                                     *)
(***************************************************************************)
\* correctionThresholdSq = 1.5 * 1.5, in squares of half units
CorrectionThresholdSq == 9

\* THREE.Vector3.distanceToSquared
distanceToSquared(a, b) ==
    (a.x - b.x) * (a.x - b.x) + (a.y - b.y) * (a.y - b.y) + (a.z - b.z) * (a.z - b.z)

\* gameState.players.find(p => p.id === this.clientId): its index, 0 for none
FindSelf(players_, clientId) ==
    IF \E i \in 1..Len(players_) : players_[i].id = clientId
    THEN CHOOSE i \in 1..Len(players_) :
            /\ players_[i].id = clientId
            /\ \A j \in 1..(i - 1) : players_[j].id # clientId
    ELSE 0

\* _onStateUpdate snapping at the threshold already
onStateUpdateSnapsAtThreshold(c, gameState) ==
    LET i == FindSelf(gameState.players, c.clientId) IN
    IF ~c.isGameRunningState \/ i = 0 THEN c
    ELSE LET serverSelfState == gameState.players[i] IN
         [c EXCEPT !.score = serverSelfState.score,
                   !.health = serverSelfState.health,
                   !.isAlive = serverSelfState.isAlive,
                   !.position =
                       IF distanceToSquared(@, serverSelfState.position) >= CorrectionThresholdSq
                       THEN serverSelfState.position ELSE @]

\* GameClient._onStateUpdate(gameState) on the local player state c
onStateUpdate(c, gameState) ==
    LET i == FindSelf(gameState.players, c.clientId) IN
    IF ~c.isGameRunningState \/ i = 0 THEN c
    ELSE LET serverSelfState == gameState.players[i] IN
         [c EXCEPT !.score = serverSelfState.score,
                   !.health = serverSelfState.health,
                   !.isAlive = serverSelfState.isAlive,
                   !.position =
                       IF distanceToSquared(@, serverSelfState.position) > CorrectionThresholdSq
                       THEN serverSelfState.position ELSE @]

PredictedPositions == {Vec(0, 1, 0), Vec(5, 1, 0 - 7)}
SnapOffsets == {Vec(x, y, z) : x \in (0 - SnapSpan)..SnapSpan, y \in {0, 2}, z \in {0, 1, 3}}
\* a snapshot entry of player id at position
SnapshotOf(id, position) ==
    [id |-> id, position |-> position, health |-> 60, isAlive |-> TRUE, score |-> 10]
Reconciliations ==
    {[c |-> [clientId |-> 1, isGameRunningState |-> running, position |-> p,
             health |-> 100, isAlive |-> TRUE, score |-> 0],
      gameState |-> [players |->
          << SnapshotOf(2, Vec(0, 0, 0)),
             SnapshotOf(self, Vec(p.x + d.x, p.y + d.y, p.z + d.z)) >>]] :
        running \in BOOLEAN, self \in {1, 3}, p \in PredictedPositions, d \in SnapOffsets}

InitReconcile ==
    /\ now = StartTime
    /\ players = << >>
    /\ removed = << >>
    /\ projectiles = << >>
    /\ npcs = InitialNpcs
    /\ timers = {Timer("gameLoop", StartTime, NoId, ZeroVec, ZeroVec, "default", 0, 0)}
    /\ nextSpawnPointIndex = 0
    /\ nextPlayerId = 1
    /\ nextProjId = 1
    /\ sockets = << >>
    /\ lastTickTime = StartTime
    /\ accumulatedTime = 0
    /\ lastBroadcastTime = StartTime
    /\ events = << >>
    /\ lastOp \in {Op("snapshot", NoId, r) : r \in Reconciliations}
    /\ resolved = << >>
    /\ hits = << >>
    /\ bursts = << >>
    /\ spawned = << >>

\* the game_state_update arrives: the operation records the state before,
\* the snapshot and the state after
CallOnStateUpdate ==
    /\ lastOp.op = "snapshot"
    /\ lastOp' = Op("onStateUpdate", NoId,
                    [before |-> lastOp.data.c, gameState |-> lastOp.data.gameState,
                     after |-> onStateUpdate(lastOp.data.c, lastOp.data.gameState)])
    /\ UNCHANGED <<now, stateVars, events, resolved>>

NextReconcile == CallOnStateUpdate

SpecReconcile == InitReconcile /\ [][NextReconcile]_vars

(***************************************************************************)
(* Airborne scenario, on the fine clock of the game loop: two clients      *)
(* join; the first jumps on the ground, in the air and dead, is hit by     *)
(* projectiles of the second, and once dead still sends its input.         *)
(***************************************************************************)
IsDead(id) == Has(players, id) /\ ~Get(players, id).isAlive

NextAir ==
    \/ AtStart /\ Connect(MaxConn)
    \/ MsgJumpRequest(1)
    \/ IsDead(1) /\ MsgPlayerUpdate(1, UpdateData(FirePos, 2, MaxSeq, << >>))
    \/ IsDead(1) /\ MsgShootRequest(1, North)
    \/ IsDead(1) /\ MsgWeaponSwitch(1)
    \/ PlayerTakeDamage(1, WEAPON_CONFIGS["default"].damage, 2)
    \/ GameLoop
    \/ AdvanceTime(AirTime)

SpecAir == Init /\ [][NextAir]_vars

(***************************************************************************)
(* Landing scenario, on the fine clock of the game loop: one client joins  *)
(* and jumps, any number of times.  The game loop reschedules itself with  *)
(* setTimeout at the end of every iteration and time passes, so both are   *)
(* taken fairly.                                                           *)
(***************************************************************************)
NextLand ==
    \/ AtStart /\ Connect(1)
    \/ now <= StartTime + LandJumpWindow /\ MsgJumpRequest(1)
    \/ GameLoop
    \/ AdvanceTime(LandTime)

SpecLand ==
    /\ Init /\ [][NextLand]_vars
    /\ WF_vars(GameLoop)
    /\ WF_vars(AdvanceTime(LandTime))

(***************************************************************************)
(* Claims                                                                  *)
(***************************************************************************)
PlayerIds == Ids(players)
P(id) == Get(players, id)

\* C4: a hit that takes a player's health to 0 leaves it dead at once; a dead,
\* connected player has its respawn pending for exactly PLAYER_RESPAWN_DELAY
\* after the death and the clock cannot pass that moment without it; the
\* respawn happens at that moment and gives full health and the spawn point
\* the cursor designates, advancing the cursor.
C4_DeadUntilDelay ==
    \A id \in PlayerIds :
        /\ P(id).health <= 0 => ~P(id).isAlive
        /\ ~P(id).isAlive =>
              /\ \E tm \in timers : tm.kind = "respawn" /\ tm.id = id
                                    /\ tm.due = P(id).diedAt + PLAYER_RESPAWN_DELAY
              /\ now <= P(id).diedAt + PLAYER_RESPAWN_DELAY

C4_RespawnStep ==
    \A id \in PlayerIds :
        (~P(id).isAlive /\ Has(players', id) /\ Get(players', id).isAlive) =>
            /\ now = P(id).diedAt + PLAYER_RESPAWN_DELAY
            /\ Get(players', id).health = Get(players', id).maxHealth
            /\ Get(players', id).position = SPAWN_POINTS[nextSpawnPointIndex + 1]
            /\ nextSpawnPointIndex' = (nextSpawnPointIndex + 1) % Len(SPAWN_POINTS)

C4_RespawnAfterDelay == [](C4_DeadUntilDelay) /\ [][C4_RespawnStep]_vars

\* a player that died of one hit at 20 health has respawned, exactly one delay later
C4_Witness ==
    \E id \in PlayerIds :
        /\ lastOp.op = "respawn_timer" /\ lastOp.id = id
        /\ P(id).isAlive /\ P(id).health = PLAYER_MAX_HEALTH
        /\ P(id).diedAt > 0 /\ now = P(id).diedAt + PLAYER_RESPAWN_DELAY

\* C5: a Player object deleted from the players map is never touched again and
\* its id never re-enters the map, whatever runs after the removal.
C5_RemovedStaysRemoved ==
    [][\A id \in DOMAIN removed :
          /\ id \in DOMAIN removed'
          /\ removed'[id] = removed[id]
          /\ ~Has(players', id)]_vars

\* a player removed while dead, seen after the moment its respawn was due
C5_Witness ==
    \E id \in DOMAIN removed :
        /\ ~removed[id].isAlive
        /\ now >= removed[id].diedAt + PLAYER_RESPAWN_DELAY
        /\ ~Has(players, id)

\* a player evicted for inactivity while its respawn was pending
C5_WitnessEvicted ==
    \E id \in DOMAIN removed :
        /\ ~removed[id].isAlive
        /\ sockets[id].state = "CLOSING" /\ sockets[id].inClients

\* C2: a projectile that resolved a hit in a tick is gone from the projectiles
\* map when the loop returns, no projectile is resolved twice, and over its
\* whole life a projectile applies its damage at most once.
C2_SingleResolution ==
    /\ \A i \in 1..Len(hits) : hits[i] <= 1
    /\ \A k \in 1..Len(resolved) :
          /\ ~Has(projectiles, resolved[k].proj)
          /\ \A j \in 1..Len(resolved) : j # k => resolved[j].proj # resolved[k].proj

\* a projectile has hit a player, and another one an obstacle
C2_Witness ==
    /\ \E i \in 1..Len(hits) : hits[i] = 1
    /\ \E k \in 1..Len(resolved) : resolved[k].type = "player"
    /\ lastOp.op = "gameLoop"

\* C6: once a player has been removed, no projectile owned by it is added to
\* the projectiles map.
C6_NoShotAfterRemoval ==
    [][\A k \in 1..Len(projectiles') :
          projectiles'[k].ownerId \in DOMAIN removed => Has(projectiles, projectiles'[k].id)]_vars

\* C7: for a burst request of a player that is still connected, the shots made
\* so far were made at the request time plus 0, 1 and 2 burst delays, in that
\* order, as distinct projectiles; the shots not yet made are pending at those
\* times; once two burst delays have passed all three have been made.
BurstDelay == WEAPON_CONFIGS["burst"].burstDelay
BurstCount == WEAPON_CONFIGS["burst"].burstCount
C7_BurstOfThree ==
    \A b \in 1..Len(bursts) :
        bursts[b].owner \in PlayerIds =>
            LET shots == bursts[b].shots
                pending == {tm \in timers : tm.kind = "burst" /\ tm.burst = b}
            IN /\ Len(shots) + Cardinality(pending) = 3
               /\ \A k \in 1..Len(shots) :
                     /\ shots[k].at = bursts[b].at + (k - 1) * BurstDelay
                     /\ \A j \in 1..Len(shots) : j # k => shots[j].proj # shots[k].proj
               /\ {tm.due : tm \in pending} =
                      {bursts[b].at + k * BurstDelay : k \in Len(shots)..(BurstCount - 1)}
               /\ now > bursts[b].at + (BurstCount - 1) * BurstDelay => Len(shots) = 3

\* a burst of a connected player is complete, two burst delays after the request
C7_Witness ==
    \E b \in 1..Len(bursts) :
        /\ bursts[b].owner \in PlayerIds
        /\ Len(bursts[b].shots) = 3
        /\ now = bursts[b].at + 2 * BurstDelay
        /\ lastOp.op = "burst_timer"

\* C9: a shoot request of a live player holding the default weapon fires (one
\* projectile, lastShotTime set to now) if at least the cooldown has passed
\* since the last shot that fired, and otherwise changes nothing.
C9_Step ==
    \A id \in PlayerIds :
        (/\ lastOp'.op = "shoot_request" /\ lastOp'.id = id
         /\ P(id).isAlive /\ P(id).currentWeapon = "default")
        => IF now - P(id).lastShotTime < WEAPON_CONFIGS["default"].cooldown
           THEN /\ players' = players
                /\ projectiles' = projectiles
                /\ events' = << >>
           ELSE /\ Get(players', id).lastShotTime = now
                /\ Len(projectiles') = Len(projectiles) + 1
                /\ projectiles'[Len(projectiles')].ownerId = id

C9_Cooldown == [][C9_Step]_vars

\* the default weapon was refused inside the cooldown window ...
C9_WitnessRefused ==
    \E id \in PlayerIds :
        /\ lastOp.op = "shoot_request" /\ lastOp.id = id
        /\ P(id).currentWeapon = "default"
        /\ P(id).lastShotTime > 0
        /\ now > P(id).lastShotTime
        /\ now - P(id).lastShotTime < WEAPON_CONFIGS["default"].cooldown

\* ... and fired again exactly one cooldown after the previous shot
C9_Witness ==
    \E id \in PlayerIds :
        /\ lastOp.op = "shoot_request" /\ lastOp.id = id
        /\ P(id).currentWeapon = "default"
        /\ P(id).lastShotTime = now
        /\ \E k \in 1..Len(projectiles) :
              /\ projectiles[k].ownerId = id /\ projectiles[k].creationTime = now
        /\ Len(hits) >= 2
        /\ now = StartTime + WEAPON_CONFIGS["default"].cooldown

\* C1: a player_update whose inputSeq is not above the player's lastInputSeq
\* leaves the player's position, rotation and six input flags as they were.
C1_StaleInputIgnored ==
    [][\A id \in PlayerIds :
          (/\ lastOp'.op = "player_update" /\ lastOp'.id = id
           /\ lastOp'.data.hasInputSeq
           /\ lastOp'.data.inputSeq <= P(id).lastInputSeq)
          => /\ Get(players', id).position = P(id).position
             /\ Get(players', id).rotation = P(id).rotation
             /\ Get(players', id).isMovingForward = P(id).isMovingForward
             /\ Get(players', id).isMovingBackward = P(id).isMovingBackward
             /\ Get(players', id).isTurningLeft = P(id).isTurningLeft
             /\ Get(players', id).isTurningRight = P(id).isTurningRight
             /\ Get(players', id).isShooting = P(id).isShooting
             /\ Get(players', id).isSprinting = P(id).isSprinting]_vars

\* C3: checkCollisions of an active projectile returns the first live
\* non-owner player it overlaps, if there is one; otherwise the first live NPC
\* it overlaps, if there is one; otherwise the first obstacle it overlaps; with
\* a hit the projectile is deactivated, and nothing else changes.
Min(S) == CHOOSE x \in S : \A y \in S : x <= y
OverlappedPlayers(proj) ==
    {i \in 1..Len(players) :
        /\ players[i].id # proj.ownerId /\ players[i].isAlive
        /\ checkCollision(proj.position, proj.size,
                          CenterPos(players[i].position, playerSize), playerSize)}
OverlappedNpcs(proj) ==
    {i \in 1..Len(npcs) :
        /\ npcs[i].isAlive
        /\ checkCollision(proj.position, proj.size,
                          CenterPos(npcs[i].position, npcs[i].size), npcs[i].size)}
OverlappedObstacles(proj) ==
    {i \in 1..Len(OBSTACLES) :
        checkCollision(proj.position, proj.size, OBSTACLES[i].position, OBSTACLES[i].size)}

C3_Step ==
    \A i \in 1..Len(projectiles) :
        (/\ lastOp'.op = "checkCollisions" /\ lastOp'.id = projectiles[i].id
         /\ projectiles[i].isActive)
        => LET proj == projectiles[i]
               hp == OverlappedPlayers(proj)
               hn == OverlappedNpcs(proj)
               ho == OverlappedObstacles(proj)
               result == resolved'[Len(resolved')]
           IN /\ hp # {} => result.type = "player" /\ result.id = players[Min(hp)].id
              /\ (hp = {} /\ hn # {}) => result.type = "npc" /\ result.id = npcs[Min(hn)].id
              /\ (hp = {} /\ hn = {} /\ ho # {})
                    => result.type = "obstacle" /\ result.id = OBSTACLES[Min(ho)].id
              /\ (hp = {} /\ hn = {} /\ ho = {})
                    => result.type = "none" /\ projectiles'[i] = proj
              /\ (hp # {} \/ hn # {} \/ ho # {})
                    => projectiles'[i] = [proj EXCEPT !.isActive = FALSE]
              /\ players' = players /\ npcs' = npcs

C3_ResolutionOrder == [][C3_Step]_vars

\* one projectile overlapped a player, an NPC and an obstacle and hit the
\* player; the other overlapped an NPC and an obstacle only and hit the NPC
C3_Witness ==
    \E a, b \in 1..Len(resolved) :
        LET pa == Get(projectiles, resolved[a].proj)
            pb == Get(projectiles, resolved[b].proj)
        IN /\ resolved[a].type = "player"
           /\ OverlappedPlayers(pa) # {} /\ OverlappedNpcs(pa) # {}
           /\ OverlappedObstacles(pa) # {}
           /\ resolved[b].type = "npc"
           /\ OverlappedPlayers(pb) = {} /\ OverlappedNpcs(pb) # {}
           /\ OverlappedObstacles(pb) # {}

\* C8: of the spawn points returned so far, any N consecutive ones are the N
\* entries of the table, each once, and the one after them repeats their first.
TableSize == Len(SPAWN_POINTS)
C8_RoundRobin ==
    /\ \A k \in 1..(Len(spawned) - TableSize + 1) :
          /\ {spawned[j] : j \in k..(k + TableSize - 1)} = SeqToSet(SPAWN_POINTS)
          /\ \A i, j \in k..(k + TableSize - 1) : i # j => spawned[i] # spawned[j]
    /\ \A k \in 1..(Len(spawned) - TableSize) : spawned[k + TableSize] = spawned[k]

\* N + 1 spawn points have been returned, one of them to a respawn that came
\* between the joins
C8_Witness ==
    /\ Len(spawned) = TableSize + 1
    /\ spawned[TableSize + 1] = spawned[1]
    /\ \E id \in PlayerIds : P(id).diedAt > 0 /\ P(id).isAlive
    /\ Len(players) = TableSize
    /\ lastOp.op = "connection"

\* C10: an NPC that starts a wait stands exactly on its current waypoint, the
\* wait starts at NPC_PATROL_WAIT_TIME and runs down by one tick per update,
\* and while it has not run out the NPC stays where it is.
Waypoint(n) == n.waypoints[n.currentWaypointIndex + 1]
C10_Step ==
    \A i \in 1..Len(npcs) :
        LET n == npcs[i]
            m == npcs'[i]
        IN /\ (n.waypointWaitTimer <= 0 /\ m.waypointWaitTimer > 0)
                => /\ m.position.x = Waypoint(m).x /\ m.position.z = Waypoint(m).z
                   /\ m.waypointWaitTimer = NPC_PATROL_WAIT_TIME * 3
           /\ (n.waypointWaitTimer > 0 /\ m # n)
                => /\ m.waypointWaitTimer = n.waypointWaitTimer - tickInterval
                   /\ m.waypointWaitTimer > 0 => m.position = n.position
           /\ m.position # n.position
                => n.waypointWaitTimer <= tickInterval

C10_SnapAndWait == [][C10_Step]_vars

\* an NPC walked to its second waypoint and is in the last tick of its wait there
C10_Witness ==
    \E i \in 1..Len(npcs) :
        /\ npcs[i].currentWaypointIndex = 1
        /\ npcs[i].position.x = Waypoint(npcs[i]).x
        /\ npcs[i].position.z = Waypoint(npcs[i]).z
        /\ npcs[i].waypointWaitTimer > 0
        /\ npcs[i].waypointWaitTimer <= tickInterval

\* C11: die() called on a player that is dead already changes nothing: the
\* player, the other players, the pending timers (the respawn among them, with
\* its due time) and every other part of the state stay as they were, and no
\* message (no second player_died) is sent
C11_Step ==
    \A id \in PlayerIds :
        (lastOp'.op = "die" /\ lastOp'.id = id /\ ~P(id).isAlive)
        => /\ UNCHANGED stateVars
           /\ events' = << >>
C11_DieIdempotent == [][C11_Step]_vars

\* die() has been called on a dead player some time after its death, while
\* its respawn was pending
C11_Witness ==
    /\ lastOp.op = "die"
    /\ Has(players, lastOp.id)
    /\ ~P(lastOp.id).isAlive
    /\ P(lastOp.id).diedAt < now
    /\ \E tm \in timers : /\ tm.kind = "respawn" /\ tm.id = lastOp.id
                          /\ tm.due = P(lastOp.id).diedAt + PLAYER_RESPAWN_DELAY

\* C12: between two respawns the health of a player never increases: every
\* step other than the player's respawn, a call of takeDamage in particular,
\* leaves its health less than or equal to what it was
C12_Step ==
    \A id \in PlayerIds :
        (Has(players', id) /\ ~(lastOp'.op = "respawn_timer" /\ lastOp'.id = id))
        => Get(players', id).health <= P(id).health
C12_HealthNeverIncreases == [][C12_Step]_vars

\* a live player has been hit more than once since it had full health
C12_Witness ==
    /\ lastOp.op = "takeDamage"
    /\ Has(players, lastOp.id)
    /\ P(lastOp.id).isAlive
    /\ P(lastOp.id).health > 0
    /\ \A amount \in DamageAmounts : P(lastOp.id).health < PLAYER_MAX_HEALTH - amount

\* C13: in every state the health of every player is within [0, maxHealth],
\* also after a hit whose damage exceeds the health that was left
C13_HealthInRange ==
    \A id \in PlayerIds : P(id).health >= 0 /\ P(id).health <= P(id).maxHealth

\* the last hit carried more damage than the player had health: the hit
\* message reports the remainder below 0, the player's health is 0
C13_Witness ==
    /\ lastOp.op = "takeDamage"
    /\ Has(players, lastOp.id)
    /\ P(lastOp.id).health = 0
    /\ \E i \in 1..Len(events) : /\ events[i].type = "player_hit"
                                 /\ events[i].id = lastOp.id
                                 /\ events[i].health < 0

\* C14: in every state a player is alive if and only if its health is above
\* 0; the only other state allowed is that of a dead player whose respawn
\* is pending
C14_AliveIffHealth ==
    \A id \in PlayerIds :
        \/ P(id).isAlive <=> P(id).health > 0
        \/ /\ ~P(id).isAlive
           /\ \E tm \in timers : tm.kind = "respawn" /\ tm.id = id

\* a player brought to exactly 0 health is dead and waits for its respawn;
\* it was alive with health left before
C14_Witness ==
    /\ lastOp.op = "takeDamage"
    /\ Has(players, lastOp.id)
    /\ ~P(lastOp.id).isAlive
    /\ P(lastOp.id).health = 0
    /\ \E i \in 1..Len(events) : /\ events[i].type = "player_hit"
                                 /\ events[i].id = lastOp.id
                                 /\ events[i].health = 0
    /\ \E tm \in timers : tm.kind = "respawn" /\ tm.id = lastOp.id

\* C15: in every state the health of every NPC is within [0, maxHealth], also
\* after a hit whose damage exceeds the health the NPC had left
C15_NpcHealthInRange ==
    \A i \in 1..Len(npcs) : npcs[i].health >= 0 /\ npcs[i].health <= npcs[i].maxHealth

\* C16: the death of an NPC is final and the npcs collection keeps every
\* NPC: in every step the collection holds the same NPCs in the same places,
\* and an NPC that was dead before the step is dead after it
C16_Step ==
    /\ Len(npcs') = Len(npcs)
    /\ \A i \in 1..Len(npcs) :
         /\ npcs'[i].id = npcs[i].id
         /\ ~npcs[i].isAlive => ~npcs'[i].isAlive
C16_NpcDeathTerminal == [][C16_Step]_vars

\* an NPC is dead, and the game loop has since run a tick in which nothing was
\* hit and has broadcast the snapshot
C16_Witness ==
    /\ \E i \in 1..Len(npcs) : ~npcs[i].isAlive
    /\ lastOp.op = "gameLoop"
    /\ lastOp.data > 0
    /\ resolved = << >>
    /\ \E k \in 1..Len(events) : events[k].type = "game_state_update"

\* C17: isActive of a projectile goes from true to false at most once and
\* never back: whatever calls of update and checkCollisions are applied, a
\* projectile that was inactive before a step is inactive after it
C17_Step ==
    /\ Len(projectiles') = Len(projectiles)
    /\ \A i \in 1..Len(projectiles) :
         /\ projectiles'[i].id = projectiles[i].id
         /\ ~projectiles[i].isActive => ~projectiles'[i].isActive
C17_InactiveForGood == [][C17_Step]_vars

\* update or checkCollisions has been called on a projectile that a collision,
\* the boundary or its lifetime had deactivated before, and it is inactive
C17_Witness ==
    /\ lastOp.op \in {"update", "checkCollisions"}
    /\ lastOp.data = FALSE
    /\ \E i \in 1..Len(projectiles) : projectiles[i].id = lastOp.id /\ ~projectiles[i].isActive

\* C18: the projectiles collection holds no projectile with isActive = false
\* in any state: whatever expired, left the world bounds or collided during a
\* tick has been purged when update returns
C18_NoInactiveProjectile ==
    \A i \in 1..Len(projectiles) : projectiles[i].isActive

\* the last game loop deactivated one projectile by a hit and another one by
\* its lifetime or the world bounds, and neither is in the collection
C18_Witness ==
    /\ lastOp.op = "gameLoop"
    /\ \E a, b \in 1..Len(resolved) :
         /\ resolved[a].type = "npc"
         /\ resolved[b].type \in {"expired", "outside"}
         /\ ~Has(projectiles, resolved[a].proj)
         /\ ~Has(projectiles, resolved[b].proj)

\* C19: checkCollision returns true for two boxes of positive sizes with the
\* same centre, and false for two boxes whose centres are, on some axis,
\* further apart than the sum of their half extents on that axis
Apart(a, b, sa, sb) == 2 * Abs(a - b) > sa + sb
C19_Overlap ==
    lastOp.op = "checkCollision" =>
        LET b == lastOp.data.args IN
        /\ (b.posA = b.posB /\ \A s \in {b.sizeA, b.sizeB} : s.x > 0 /\ s.y > 0 /\ s.z > 0)
              => lastOp.data.result
        /\ (\/ Apart(b.posA.x, b.posB.x, b.sizeA.x, b.sizeB.x)
            \/ Apart(b.posA.y, b.posB.y, b.sizeA.y, b.sizeB.y)
            \/ Apart(b.posA.z, b.posB.z, b.sizeA.z, b.sizeB.z))
              => ~lastOp.data.result

\* checkCollision has returned false for two boxes that are apart on the
\* vertical axis alone
C19_Witness ==
    /\ lastOp.op = "checkCollision"
    /\ ~lastOp.data.result
    /\ Apart(lastOp.data.args.posA.y, lastOp.data.args.posB.y,
             lastOp.data.args.sizeA.y, lastOp.data.args.sizeB.y)
    /\ ~Apart(lastOp.data.args.posA.x, lastOp.data.args.posB.x,
              lastOp.data.args.sizeA.x, lastOp.data.args.sizeB.x)
    /\ ~Apart(lastOp.data.args.posA.z, lastOp.data.args.posB.z,
              lastOp.data.args.sizeA.z, lastOp.data.args.sizeB.z)

\* C20: in every state the x of every player's position is a number within
\* [-WORLD_BOUNDS_X, WORLD_BOUNDS_X] and its z a number within
\* [-WORLD_BOUNDS_Z, WORLD_BOUNDS_Z], whatever position the clients send and
\* wherever the players spawn
C20_PositionInBounds ==
    \A id \in PlayerIds :
        /\ P(id).position.x # NaN
        /\ Abs(P(id).position.x) <= WORLD_BOUNDS_X
        /\ P(id).position.z # NaN
        /\ Abs(P(id).position.z) <= WORLD_BOUNDS_Z

\* C21: position.y of a player is the server's: a player_update leaves it as
\* it was, whatever y the client sent, and it changes only in a game loop
\* (updatePhysics) or at the player's respawn
C21_Step ==
    \A id \in PlayerIds :
        Has(players', id) =>
            /\ (lastOp'.op = "player_update") => Get(players', id).position.y = P(id).position.y
            /\ (Get(players', id).position.y # P(id).position.y)
                  => \/ lastOp'.op = "gameLoop"
                     \/ lastOp'.op = "respawn_timer" /\ lastOp'.id = id
C21_ServerOwnsY == [][C21_Step]_vars

\* a player in the air has taken the x and z of a player_update whose y was
\* another one than its own
C21_Witness ==
    /\ lastOp.op = "player_update"
    /\ Has(players, lastOp.id)
    /\ lastOp.data.hasPosition
    /\ P(lastOp.id).position.x = lastOp.data.position.x
    /\ P(lastOp.id).position.z = lastOp.data.position.z
    /\ P(lastOp.id).position.y > PLAYER_GROUND_Y
    /\ P(lastOp.id).position.y # lastOp.data.position.y

\* C22: an iteration of the game loop runs at most MAX_UPDATES_PER_LOOP
\* updates; when it has run that many the accumulated time is set to 0; after
\* every iteration the accumulated time is at least 0 and below one tick
C22_BoundedCatchUp ==
    /\ accumulatedTime >= 0
    /\ accumulatedTime < tickInterval
    /\ lastOp.op = "gameLoop"
          => /\ lastOp.data <= MAX_UPDATES_PER_LOOP
             /\ lastOp.data >= MAX_UPDATES_PER_LOOP => accumulatedTime = 0

\* updates run since the start, counted on the first wait of the first NPC
UpdatesRun == 1 + (NPC_PATROL_WAIT_TIME * 3 - npcs[1].waypointWaitTimer) \div tickInterval

\* an iteration has run the maximum of updates and dropped the rest: more
\* time has passed since the start than the updates run so far account for
C22_Witness ==
    /\ lastOp.op = "gameLoop"
    /\ lastOp.data = MAX_UPDATES_PER_LOOP
    /\ accumulatedTime = 0
    /\ npcs[1].waypointWaitTimer > 0
    /\ (now - StartTime) * 3 >= (UpdatesRun + 1) * tickInterval

\* C23: a game loop broadcasts at most one game_state_update, and its payload
\* is the game state as the completed updates of that loop left it: every
\* tracked player and every NPC with its position, health and isAlive, and
\* exactly the active projectiles with their positions
Snapshots == SelectSeq(events, LAMBDA e : e.type = "game_state_update")
C23_FullSnapshot ==
    /\ Len(Snapshots) <= 1
    /\ \A k \in 1..Len(Snapshots) :
         LET s == Snapshots[k].payload IN
         /\ lastOp.op = "gameLoop"
         /\ Len(s.players) = Len(players)
         /\ \A i \in 1..Len(players) :
              /\ s.players[i].id = players[i].id
              /\ s.players[i].position = players[i].position
              /\ s.players[i].health = players[i].health
              /\ s.players[i].isAlive = players[i].isAlive
              /\ s.players[i].score = players[i].score
         /\ Len(s.npcs) = Len(npcs)
         /\ \A i \in 1..Len(npcs) :
              /\ s.npcs[i].id = npcs[i].id
              /\ s.npcs[i].position = npcs[i].position
              /\ s.npcs[i].health = npcs[i].health
              /\ s.npcs[i].isAlive = npcs[i].isAlive
         /\ {[id |-> s.projectiles[i].id, position |-> s.projectiles[i].position] :
                i \in 1..Len(s.projectiles)}
            = {[id |-> projectiles[i].id, position |-> projectiles[i].position] :
                i \in {j \in 1..Len(projectiles) : projectiles[j].isActive}}

\* a loop that ran an update and resolved a hit in it has broadcast a snapshot
\* with two players, the three NPCs and a projectile still in flight
C23_Witness ==
    /\ lastOp.op = "gameLoop"
    /\ lastOp.data > 0
    /\ Len(Snapshots) = 1
    /\ Len(Snapshots[1].payload.players) = 2
    /\ resolved # << >>
    /\ Len(Snapshots[1].payload.npcs) = 3
    /\ Len(Snapshots[1].payload.projectiles) > 0
    /\ Snapshots[1].to # {}

\* C24: broadcast sends the message once to every registered client whose
\* socket is OPEN, the excluded one apart, whichever of the sends fail
C24_Step ==
    LET sends == lastOp.data.sends IN
    /\ {sends[i].to : i \in 1..Len(sends)} = Recipients(sockets, lastOp.id)
    /\ \A i, j \in 1..Len(sends) : i # j => sends[i].to # sends[j].to
    /\ \A i \in 1..Len(sends) : sends[i].err <=> sends[i].to \in lastOp.data.failing
C24_BroadcastGoesOn == lastOp.op = "broadcast" => C24_Step

\* a broadcast with one client excluded has made a send that failed and,
\* after it, a send to another client
C24_Witness ==
    /\ lastOp.op = "broadcast"
    /\ lastOp.id # NoId
    /\ IsOpen(sockets, lastOp.id)
    /\ \E i, j \in 1..Len(lastOp.data.sends) :
          i < j /\ lastOp.data.sends[i].err /\ ~lastOp.data.sends[j].err

\* C25: a message longer than 2048 is dropped before it is parsed: no player
\* or game state changes, nothing is sent to any client, and the connection
\* stays open
C25_Step ==
    (lastOp'.op = "message" /\ lastOp'.data.m.size > MessageSizeLimit) =>
        /\ UNCHANGED stateVars
        /\ events' = << >>
        /\ IsOpen(sockets', lastOp'.id)
C25_OversizedDropped == [][C25_Step]_vars

\* a live player with a listener has sent a chat message of 2049 characters
C25_Witness ==
    /\ lastOp.op = "message"
    /\ lastOp.data.m.size = MessageSizeLimit + 1
    /\ lastOp.data.m.type = "chat_message"
    /\ Has(players, lastOp.id) /\ Get(players, lastOp.id).isAlive
    /\ Cardinality(Recipients(sockets, NoId)) = 2

\* a message the handler cannot make sense of: no JSON, no object, a type
\* it does not know, or no payload where the type needs one
Malformed(m) ==
    \/ m.form # "object"
    \/ m.type \notin MessageTypes \ {"dance"}
    \/ ~m.hasPayload /\ m.type \in {"player_update", "shoot_request", "chat_message"}

\* C26: a malformed message is dropped: the game state stays as it is, the
\* connection stays open and the player registered, and a well-formed
\* player_update that follows on the connection is processed
C26_Step ==
    (lastOp'.op = "message" /\ lastOp'.data.m.size <= MessageSizeLimit
                            /\ Malformed(lastOp'.data.m)) =>
        /\ UNCHANGED stateVars
        /\ events' = << >>
        /\ IsOpen(sockets', lastOp'.id) /\ sockets'[lastOp'.id].inClients
        /\ Has(players', lastOp'.id)
C26_Later ==
    (/\ lastOp.op = "message" /\ lastOp.data.after \in {"text", "null"}
     /\ lastOp.data.m \in ReadableMessages /\ lastOp.data.m.type = "player_update"
     /\ Has(players, lastOp.id) /\ Get(players, lastOp.id).isAlive) =>
        /\ Get(players, lastOp.id).lastUpdateTime = now
        /\ Get(players, lastOp.id).position.x = lastOp.data.m.updateData.position.x
        /\ Get(players, lastOp.id).lastInputSeq = lastOp.data.m.updateData.inputSeq
C26_MalformedDropped == [][C26_Step]_vars /\ []C26_Later

\* a player away from the firing position has sent a text that is no JSON and,
\* next, a player_update that moved it there
C26_Witness ==
    /\ lastOp.op = "message" /\ lastOp.data.after = "text"
    /\ lastOp.data.m \in ReadableMessages /\ lastOp.data.m.type = "player_update"
    /\ InPosition(lastOp.id)
    /\ Get(players, lastOp.id).lastUpdateTime = now
    /\ now > StartTime

\* C27: after a player_update the position and the rotation of the player hold
\* numbers only, whatever values the message carried
C27_NumbersAfterUpdate ==
    (lastOp.op = "player_update" /\ Has(players, lastOp.id)) =>
        /\ P(lastOp.id).position.x # NaN
        /\ P(lastOp.id).position.z # NaN
        /\ P(lastOp.id).rotation # NaN

\* C28: a game loop that runs an update removes exactly the players whose
\* lastUpdateTime lies more than PLAYER_INACTIVITY_TIMEOUT back, and their
\* sockets are terminated; every other player stays
C28_Step ==
    (lastOp'.op = "gameLoop" /\ lastOp'.data > 0) =>
        \A id \in PlayerIds :
            LET old == now' - P(id).lastUpdateTime > PLAYER_INACTIVITY_TIMEOUT IN
            /\ old <=> ~Has(players', id)
            /\ old => /\ id \in DOMAIN removed'
                      /\ ~IsOpen(sockets', id)
C28_EvictsTheInactive == [][C28_Step]_vars

\* a game loop has evicted one player and kept another, whose last input
\* was then exactly PLAYER_INACTIVITY_TIMEOUT old
C28_Witness ==
    /\ lastOp.op = "gameLoop" /\ lastOp.data > 0
    /\ \E id \in DOMAIN removed :
          /\ sockets[id].state = "CLOSING" /\ sockets[id].inClients
          /\ now - removed[id].lastUpdateTime > PLAYER_INACTIVITY_TIMEOUT
    /\ \E id \in PlayerIds : now - P(id).lastUpdateTime = PLAYER_INACTIVITY_TIMEOUT

\* the hits of the game loop just run that killed: the victim was alive before
\* the loop and is dead after it, and no later hit of the loop was on it
KillsOf(type, ownerId) ==
    {k \in 1..Len(resolved') :
        /\ resolved'[k].type = type
        /\ Get(projectiles, resolved'[k].proj).ownerId = ownerId
        /\ \A j \in (k + 1)..Len(resolved') :
              resolved'[j].type = type => resolved'[j].id # resolved'[k].id
        /\ IF type = "player"
           THEN /\ ownerId # resolved'[k].id
                /\ P(resolved'[k].id).isAlive
                /\ ~Get(players', resolved'[k].id).isAlive
           ELSE /\ Get(npcs, resolved'[k].id).isAlive
                /\ ~Get(npcs', resolved'[k].id).isAlive}

\* C29: a game loop adds to the score of each tracked player the points of
\* the kills made by its projectiles, SCORE_PER_PLAYER_KILL for another player
\* and SCORE_PER_NPC_KILL for an NPC, and nothing else; a kill by a projectile
\* of a removed player changes no score
C29_Step ==
    lastOp'.op = "gameLoop" =>
        /\ \A id \in PlayerIds :
              Has(players', id) =>
                  Get(players', id).score = P(id).score
                      + SCORE_PER_PLAYER_KILL * Cardinality(KillsOf("player", id))
                      + SCORE_PER_NPC_KILL * Cardinality(KillsOf("npc", id))
        /\ \A id \in DOMAIN removed' : id \in DOMAIN removed => removed'[id] = removed[id]
C29_KillCredit == [][C29_Step]_vars

\* a projectile of a removed player has just killed the other player
C29_Witness ==
    /\ lastOp.op = "gameLoop"
    /\ 1 \in DOMAIN removed
    /\ \E k \in 1..Len(resolved) :
          /\ resolved[k].type = "player"
          /\ ~P(resolved[k].id).isAlive
          /\ P(resolved[k].id).diedAt = now
    /\ \A id \in PlayerIds : P(id).score = 0

C31_HardSnap ==
    lastOp.op = "onStateUpdate" =>
        LET before == lastOp.data.before
            after == lastOp.data.after
            own == {i \in 1..Len(lastOp.data.gameState.players) :
                       lastOp.data.gameState.players[i].id = before.clientId}
        IN \A i \in own :
              before.isGameRunningState =>
                  LET serverPos == lastOp.data.gameState.players[i].position
                      dx == before.position.x - serverPos.x
                      dy == before.position.y - serverPos.y
                      dz == before.position.z - serverPos.z
                  IN IF dx * dx + dy * dy + dz * dz > CorrectionThresholdSq
                     THEN after.position = serverPos
                     ELSE after.position = before.position

\* a predicted position exactly 1.5 units from the server's was kept
C31_Witness ==
    /\ lastOp.op = "onStateUpdate"
    /\ lastOp.data.before.isGameRunningState
    /\ lastOp.data.after.health = 60
    /\ lastOp.data.after.position = lastOp.data.before.position
    /\ distanceToSquared(lastOp.data.before.position,
                         lastOp.data.gameState.players[2].position) = CorrectionThresholdSq

\* C32: a player_hit message carries as remaining health the health the hit
\* player has after the damage, which is not below 0
C32_RemainingHealth ==
    \A i \in 1..Len(events) :
        (events[i].type = "player_hit" /\ Has(players, events[i].id)) =>
            /\ events[i].health = P(events[i].id).health
            /\ events[i].health >= 0

\* C33: a jump request of a live, grounded player sets velocity.y to
\* PLAYER_JUMP_VELOCITY, clears isGrounded and broadcasts one player_jump;
\* a jump request of a player in the air or dead changes nothing and
\* broadcasts nothing
C33_Step ==
    \A id \in PlayerIds :
        (lastOp'.op = "jump_request" /\ lastOp'.id = id) =>
            IF P(id).isAlive /\ P(id).isGrounded
            THEN /\ Get(players', id).velocity.y = PLAYER_JUMP_VELOCITY
                 /\ ~Get(players', id).isGrounded
                 /\ Get(players', id).position = P(id).position
                 /\ Len(events') = 1
                 /\ events'[1].type = "player_jump"
                 /\ events'[1].id = id
                 /\ events'[1].to = Recipients(sockets, NoId)
            ELSE /\ UNCHANGED stateVars
                 /\ events' = << >>
C33_JumpFromGround == [][C33_Step]_vars

\* a jump request of a player in the air, still rising, has been refused
C33_Witness ==
    /\ lastOp.op = "jump_request"
    /\ Has(players, lastOp.id)
    /\ P(lastOp.id).isAlive
    /\ ~P(lastOp.id).isGrounded
    /\ P(lastOp.id).position.y > PLAYER_GROUND_Y
    /\ P(lastOp.id).velocity.y < PLAYER_JUMP_VELOCITY
    /\ events = << >>

Airborne(id) == Has(players, id) /\ P(id).isAlive /\ ~P(id).isGrounded
Landed(id) ==
    /\ Has(players, id)
    /\ P(id).isGrounded
    /\ P(id).position.y = PLAYER_GROUND_Y
    /\ P(id).velocity.y = 0

\* C34: a player in the air after a jump is grounded again after finitely many
\* ticks, with position.y = PLAYER_GROUND_Y and velocity.y = 0, unless it dies
\* or leaves before
C34_LandsAgain == Airborne(1) ~> (Landed(1) \/ IsDead(1) \/ ~Has(players, 1))

\* a live player on its way down, which the next tick takes to the ground
C34_Witness ==
    /\ Airborne(1)
    /\ P(1).velocity.y < 0
    /\ P(1).position.y + P(1).velocity.y - GRAVITY_PER_TICK <= PLAYER_GROUND_Y

\* C35: the waypoint index of an NPC changes only in a tick in which its wait
\* runs out, and then to the next index modulo the number of waypoints; a wait
\* that runs out always moves the index on; the index of a patrolling NPC is
\* always one of its waypoints
C35_Step ==
    \A i \in 1..Len(npcs) :
        LET n == npcs[i]
            m == npcs'[i]
            ticks == IF lastOp'.op = "gameLoop" THEN lastOp'.data ELSE 0
            elapses == /\ n.isAlive /\ n.aiState = "patrolling"
                       /\ n.waypointWaitTimer > 0
                       /\ n.waypointWaitTimer <= ticks * tickInterval
        IN /\ m.currentWaypointIndex # n.currentWaypointIndex => elapses
           /\ elapses => m.currentWaypointIndex
                            = (n.currentWaypointIndex + 1) % Len(n.waypoints)
           /\ m.aiState = "patrolling"
                => m.currentWaypointIndex \in 0..(Len(m.waypoints) - 1)

C35_RoundRobin == [][C35_Step]_vars

\* an NPC has waited at its last waypoint and is on its way to the first again
C35_Witness ==
    \E i \in 1..Len(npcs) :
        /\ npcs[i].aiState = "patrolling"
        /\ npcs[i].currentWaypointIndex = 0
        /\ npcs[i].waypointWaitTimer <= 0
        /\ npcs[i].position # InitialNpcs[i].position

\* C36: a projectile never hits its owner, a dead player or a dead NPC, and
\* they do not stop it: the outcome of checkCollisions (the hit and the
\* projectile afterwards) is the one of the same call without them
TouchesPlayer(proj, player) ==
    checkCollision(proj.position, proj.size, CenterPos(player.position, playerSize), playerSize)
TouchesNpc(proj, npc) ==
    checkCollision(proj.position, proj.size, CenterPos(npc.position, npc.size), npc.size)
Shielded(proj, player) == player.id = proj.ownerId \/ ~player.isAlive
C36_Step ==
    \A i \in 1..Len(projectiles) :
        (lastOp'.op = "checkCollisions" /\ lastOp'.id = projectiles[i].id)
        => LET proj == projectiles[i]
               result == resolved'[Len(resolved')]
               others == SelectSeq(players, LAMBDA p : ~Shielded(proj, p))
               living == SelectSeq(npcs, LAMBDA n : n.isAlive)
               without == checkCollisions(proj, others, living, OBSTACLES)
           IN /\ result.type = "player"
                    => /\ result.id # proj.ownerId
                       /\ Get(players, result.id).isAlive
              /\ result.type = "npc" => Get(npcs, result.id).isAlive
              /\ result.type = without.hit.type /\ result.id = without.hit.id
              /\ projectiles'[i] = without.proj
              /\ players' = players /\ npcs' = npcs

C36_SparesOwnerAndDead == [][C36_Step]_vars

\* a projectile inside its live owner and inside a dead player or a dead NPC,
\* clear of everything else, was checked, hit nothing and is still active
C36_Witness ==
    \E k \in 1..Len(resolved) :
        LET proj == Get(projectiles, resolved[k].proj)
        IN /\ resolved[k].type = "none"
           /\ proj.isActive
           /\ \E i \in 1..Len(players) :
                 /\ players[i].id = proj.ownerId /\ players[i].isAlive
                 /\ TouchesPlayer(proj, players[i])
           /\ \/ \E i \in 1..Len(players) :
                    ~players[i].isAlive /\ TouchesPlayer(proj, players[i])
              \/ \E i \in 1..Len(npcs) : ~npcs[i].isAlive /\ TouchesNpc(proj, npcs[i])

\* C37: the lastInputSeq of a player never decreases, whatever happens to the
\* player; it changes only in a player_update of that player, to the inputSeq
\* of the message, which is above the number the player had
C37_Step ==
    \A id \in PlayerIds :
        Has(players', id)
        => LET before == P(id).lastInputSeq
               after == Get(players', id).lastInputSeq
           IN /\ after >= before
              /\ after # before
                    => /\ lastOp'.op = "player_update" /\ lastOp'.id = id
                       /\ lastOp'.data.hasInputSeq
                       /\ after = lastOp'.data.inputSeq
                       /\ after > before

ClientRequests == {"player_update", "shoot_request", "jump_request", "weapon_switch_request"}
C38_Step ==
    \A id \in PlayerIds :
        (lastOp'.op \in ClientRequests /\ lastOp'.id = id /\ ~P(id).isAlive)
        => /\ players' = players
           /\ projectiles' = projectiles
           /\ nextProjId' = nextProjId
           /\ timers' = timers
           /\ npcs' = npcs
           /\ events' = << >>

C38_DeadIsInert == [][C38_Step]_vars

\* a dead player sent a player_update with a position of its own and an
\* inputSeq above its lastInputSeq, and is where it died
C38_Witness ==
    /\ lastOp.op = "player_update"
    /\ Has(players, lastOp.id)
    /\ ~P(lastOp.id).isAlive
    /\ lastOp.data.hasPosition /\ lastOp.data.position.x # P(lastOp.id).position.x
    /\ lastOp.data.hasInputSeq /\ lastOp.data.inputSeq > P(lastOp.id).lastInputSeq

\* C39: for every connection exactly one player_leave is broadcast for its id:
\* a step broadcasts it at most once, and only when it takes the connection
\* out of the clients, which happens once; a connection that is closed has
\* been taken out
LeavesOf(evs, id) == Cardinality({k \in 1..Len(evs) : evs[k].type = "player_leave" /\ evs[k].id = id})
C39_Step ==
    \A id \in DOMAIN sockets :
        /\ LeavesOf(events', id) <= 1
        /\ LeavesOf(events', id) = 1 <=> (sockets[id].inClients /\ ~sockets'[id].inClients)
        /\ ~sockets[id].inClients => ~sockets'[id].inClients
C39_Closed == \A id \in DOMAIN sockets : sockets[id].state = "CLOSED" => ~sockets[id].inClients

C39_OneLeave == [][C39_Step]_vars /\ []C39_Closed

\* C40: a player whose isGrounded flag is set stands at PLAYER_GROUND_Y with
\* no vertical velocity, a player that died in the air included
C40_GroundedOnGround ==
    \A id \in PlayerIds :
        P(id).isGrounded
        => /\ P(id).position.y = PLAYER_GROUND_Y
           /\ P(id).velocity.y = 0

====
